---- MODULE Spec2Model ----
(***************************************************************************)
(* Heuristic medical-image triage: the planar (X-ray) classifier           *)
(* CNNModel.analyze_image and the volumetric snapshot analyzers            *)
(* CTModel.analyze_image / MRIModel.analyze_image, with their optional     *)
(* external collaborators (vision assistant, pretrained source).           *)
(*                                                                         *)
(* Numbers.  Pixel statistics are integers in pixel units; ratios are in   *)
(* hundredths, opacity and lesion scores in thousandths.  float32 values   *)
(* (the probability vector) are fixed-point numbers in units of 1e-8:      *)
(* a stored value x stands for a real in [x, x+1) * 1e-8, every operation  *)
(* truncates to the unit, and a literal stored as float32 carries the      *)
(* float32 value of the literal (0.88 -> 0.8799999952...).                 *)
(*                                                                         *)
(* Strings that the code inspects (body regions) are sequences of          *)
(* one-character strings, so that strip/lower/replace and the substring    *)
(* tests are computed, not assumed.                                        *)
(***************************************************************************)
EXTENDS Integers, Sequences, FiniteSets, TLC

VARIABLES
    gemini,      \* self.gemini of the model objects: TRUE iff a vision assistant handle is held
    pretrained,  \* CNNModel.pretrained: TRUE iff a pretrained source handle is held
    pc,          \* position of the caller: "idle", "done" after analyze_image,
                 \* "routed" after a request handler, or a step inside analyze_image
    req,         \* the image (and the behaviour of the collaborators) of the current call
    result,      \* the value analyze_image (or the request handler) returned
    locals,      \* the locals of an analyze_image call that is followed step by step
    first,       \* per image, the result of the first client-less analysis of it
    handle,      \* the module globals cnn_model, mri_model, ct_model of app.py
    thread,      \* per request thread, its position inside a get_*_model call
    created      \* per model class, the number of objects constructed so far

\* the state of the lazily initialised handles and of the threads asking for them
lazyVars == <<handle, thread, created>>

vars == <<gemini, pretrained, pc, req, result, locals, first, handle, thread, created>>

----------------------------------------------------------------------------
(* Bounds of the model *)

\* number of request threads that may ask for a model handle concurrently
MaxThreads == 2

\* largest number of pixels of a CT/MRI snapshot (flattened)
MaxPixels == 3

\* largest number of preliminary findings in a vision hint
MaxHintFindings == 1

\* number of pixels of the long snapshots (flattened)
LongPixels == 70

----------------------------------------------------------------------------
(* Arithmetic *)

\* 1.0 in the fixed-point unit of float32 values (1e-8)
Unit == 100000000

\* number of fractional decimal digits of Unit
UnitDigits == 8

Max2(a, b) == IF a >= b THEN a ELSE b

Min2(a, b) == IF a <= b THEN a ELSE b

Abs(a) == IF a < 0 THEN -a ELSE a

\* np.clip(x, lo, hi)
Clip(x, lo, hi) == Max2(lo, Min2(hi, x))

RECURSIVE LongDiv(_, _, _, _)
\* q.r... continued by n more decimal digits of r / b
LongDiv(q, r, b, n) ==
    IF n = 0 THEN q
    ELSE LongDiv(q * 10 + ((r * 10) \div b), (r * 10) % b, b, n - 1)

\* a / b as a fixed-point value (a, b in the same unit, b > 0)
FixDiv(a, b) == LongDiv(a \div b, a % b, b, UnitDigits)

\* x * num / den without leaving 32 bits (0 <= num <= den <= 1000)
MulFrac(x, num, den) == (x \div den) * num + (((x % den) * num) \div den)

\* round(x, 2) of a fixed-point value, in hundredths
Round2(x) == (x + (Unit \div 200)) \div (Unit \div 100)

\* round(x, 2) of a value in units of 1e-4, in hundredths
Round2e4(x) == (x + 50) \div 100

\* vec.sum()
Sum4(v) == v[1] + v[2] + v[3] + v[4]

\* vec / vec.sum()
Normalize(v) == [i \in 1..4 |-> FixDiv(v[i], Sum4(v))]

\* np.argmax(vec): the first index holding the maximum (1-based here)
ArgMax(v) ==
    CHOOSE i \in 1..4 :
        /\ \A j \in 1..4 : v[j] <= v[i]
        /\ \A j \in 1..(i - 1) : v[j] < v[i]

----------------------------------------------------------------------------
(* Strings *)

UpperChars == <<"A","B","C","D","E","F","G","H","I","J","K","L","M",
                "N","O","P","Q","R","S","T","U","V","W","X","Y","Z">>

LowerChars == <<"a","b","c","d","e","f","g","h","i","j","k","l","m",
                "n","o","p","q","r","s","t","u","v","w","x","y","z">>

LowerChar(c) ==
    IF \E i \in 1..26 : UpperChars[i] = c
    THEN LowerChars[CHOOSE i \in 1..26 : UpperChars[i] = c]
    ELSE c

\* str.lower()
Lower(s) == [i \in 1..Len(s) |-> LowerChar(s[i])]

\* str.replace("_", "-")
ReplaceUnderscore(s) == [i \in 1..Len(s) |-> IF s[i] = "_" THEN "-" ELSE s[i]]

RECURSIVE LStrip(_)
LStrip(s) == IF s # <<>> /\ Head(s) = " " THEN LStrip(Tail(s)) ELSE s

RECURSIVE RStrip(_)
RStrip(s) ==
    IF s # <<>> /\ s[Len(s)] = " " THEN RStrip(SubSeq(s, 1, Len(s) - 1)) ELSE s

\* str.strip()
Strip(s) == RStrip(LStrip(s))

\* sub in s
Contains(sub, s) ==
    \E i \in 0..(Len(s) - Len(sub)) : SubSeq(s, i + 1, i + Len(sub)) = sub

\* x or default, for a string (None and "" are both the empty sequence)
OrStr(x, default) == IF x = <<>> THEN default ELSE x

StrChest == <<"c","h","e","s","t">>
StrLung == <<"l","u","n","g">>
StrNeck == <<"n","e","c","k">>
StrCervical == <<"c","e","r","v","i","c","a","l">>
StrUnknown == <<"u","n","k","n","o","w","n">>
StrNonChest == <<"n","o","n","-","c","h","e","s","t">>
StrRegion == <<"r","e","g","i","o","n">>
StrCt == <<"c","t">>
StrMri == <<"m","r","i">>

----------------------------------------------------------------------------
(* Values shared by the three analyzers *)

\* Python None where a number is expected (gem_conf = None)
NoneNum == -1

\* truthiness of an optional number: None and 0.0 are falsy
Truthy(x) == x # NoneNum /\ x # 0

\* a finding is a phrase, optionally completed by an interpolated region
Finding(text, arg) == [text |-> text, arg |-> arg, isstr |-> TRUE]

\* the label f"{region}{text}"; region is empty for a plain class name
Label(region, text) == [region |-> region, text |-> text]

\* an exception leaving a block of code
Raised(e) == [raised |-> e]

\* whether evaluating a try block ended in an exception
IsRaised(r) == "raised" \in DOMAIN r

\* the locals gem_* before the vision assistant is consulted
NoHint ==
    [gem_modality |-> "", gem_conf |-> NoneNum, gem_body_region |-> <<>>,
     gem_findings |-> <<>>, is_dental |-> FALSE, calls |-> 0]

\* findings of the hint first: only strings, each once
RECURSIVE MergeFindings(_, _, _)
MergeFindings(findings, more, onlyStr) ==
    IF more = <<>> THEN findings
    ELSE LET f == Head(more)
             keep == (~onlyStr \/ f.isstr)
                     /\ ~(\E i \in 1..Len(findings) : findings[i] = f)
         IN MergeFindings(IF keep THEN Append(findings, f) ELSE findings,
                          Tail(more), onlyStr)

----------------------------------------------------------------------------
(* PretrainedXrayModel.infer *)

\* 1.0 in the unit of the pretrained source's probabilities (1e-6)
PreOne == 1000000

\* the map infer builds from the sigmoid outputs of the network
PretrainedInfer(out) ==
    LET tumor == Max2(out.mass, out.nodule)
        others == Max2(out.pneumonia, Max2(tumor, 0))
    IN [normal |-> Max2(0, PreOne - others), pneumonia |-> out.pneumonia,
        tumor |-> tumor, fracture |-> 0]

----------------------------------------------------------------------------
(* CNNModel *)

class_names == <<"Normal", "Pneumonia", "Tumor", "Fracture">>

\* 1.0 in the unit of the normalised features nb, nc, ns, ne, no
NormOne == 3000

\* 1.0 in the unit of the heuristic class scores
ScoreOne == NormOne * 1000

\* 1e-6 in the unit of the heuristic class scores
ScoreFloor == ScoreOne \div PreOne

\* float32 values of the literals the code stores in float32 arrays
F32_088 == 87999999
F32_090 == 89999997
F32_004 == 3999999
F32_003 == 2999999
F32_070 == 69999998
F32_002 == 1999999

DentalVec == <<F32_088, F32_004, F32_004, F32_004>>

GeminiVec == <<F32_090, F32_004, F32_003, F32_003>>

\* the modality gate of lines 94-99
CNN_dental_like(img) ==
    img.aspect > 160 /\ (img.edge_ratio > 135 \/ img.bright_ratio > 112)

\* CNN_hint with the region default assigned before the guarded call
CNN_hint_early_default(self_gemini, img) ==
    IF ~self_gemini THEN NoHint
    ELSE IF img.vis.kind # "ok"
    THEN [NoHint EXCEPT !.calls = 1, !.gem_body_region = StrUnknown]
    ELSE LET gv == img.vis.hint
         IN [gem_modality |-> gv.modality,
             gem_conf |-> gv.confidence,
             gem_body_region |-> OrStr(gv.body_region, StrUnknown),
             gem_findings |-> gv.preliminary_findings,
             is_dental |-> gv.is_dental
                           \/ (gv.modality \in {"non-chest-xray", "document"}
                               /\ Truthy(gv.confidence) /\ gv.confidence > 75),
             calls |-> 1]

\* CNN_hint asking the assistant a second time after an exception or a null
CNN_hint_retry(self_gemini, img) ==
    IF ~self_gemini THEN NoHint
    ELSE IF img.vis.kind = "malformed"
    THEN [NoHint EXCEPT !.calls = 1, !.gem_modality = img.vis.hint.modality]
    ELSE IF img.vis.kind # "ok" THEN [NoHint EXCEPT !.calls = 2]
    ELSE LET gv == img.vis.hint
             conf == gv.confidence
         IN [gem_modality |-> gv.modality,
             gem_conf |-> conf,
             gem_body_region |-> OrStr(gv.body_region, StrUnknown),
             gem_findings |-> gv.preliminary_findings,
             is_dental |-> gv.is_dental
                           \/ (gv.modality \in {"non-chest-xray", "document"}
                               /\ Truthy(conf) /\ conf > 75),
             calls |-> 1]

\* lines 101-118: the vision assistant, consulted once, failures swallowed
CNN_hint(self_gemini, img) ==
    IF ~self_gemini THEN NoHint
    ELSE IF img.vis.kind = "malformed"
    THEN [NoHint EXCEPT !.calls = 1, !.gem_modality = img.vis.hint.modality]
    ELSE IF img.vis.kind # "ok" THEN [NoHint EXCEPT !.calls = 1]
    ELSE LET gv == img.vis.hint
             conf == gv.confidence
         IN [gem_modality |-> gv.modality,
             gem_conf |-> conf,
             gem_body_region |-> OrStr(gv.body_region, StrUnknown),
             gem_findings |-> gv.preliminary_findings,
             is_dental |-> gv.is_dental
                           \/ (gv.modality \in {"non-chest-xray", "document"}
                               /\ Truthy(conf) /\ conf > 75),
             calls |-> 1]

\* CNN_scores with the Normal and Pneumonia scores in each other's place
CNN_scores_swapped(img) ==
    LET nb == Clip((img.brightness - 90) * 50, -NormOne, NormOne)
        nc == Clip((img.contrast - 40) * 75, -NormOne, NormOne)
        ns == Clip((img.sharpness - 25) * 60, -NormOne, NormOne)
        ne == Clip((img.edge_score - 25) * 75, -NormOne, NormOne)
        no == Clip(img.opacity * 9, 0, NormOne)
        pneumonia == 5 * no + 2 * (NormOne - Abs(nb)) + 2 * Max2(0, nc)
                     + 1 * (NormOne - Max2(0, ns))
        tumor == 4 * no + 4 * Max2(0, ne) + 2 * Max2(0, ns)
        fracture == 6 * Max2(0, ns) + 3 * Max2(0, ne) + 1 * Max2(0, nc)
        normal == 5 * (NormOne - no) + 2 * (NormOne - Max2(0, ne))
                  + 2 * (NormOne - Max2(0, ns)) + 1 * (NormOne - Abs(nb))
    IN <<100 * pneumonia, 100 * normal, 100 * tumor, 100 * fracture>>

\* lines 120-136: the heuristic class scores, in ScoreOne units
CNN_scores(img) ==
    LET nb == Clip((img.brightness - 90) * 50, -NormOne, NormOne)
        nc == Clip((img.contrast - 40) * 75, -NormOne, NormOne)
        ns == Clip((img.sharpness - 25) * 60, -NormOne, NormOne)
        ne == Clip((img.edge_score - 25) * 75, -NormOne, NormOne)
        no == Clip(img.opacity * 9, 0, NormOne)
        pneumonia == 5 * no + 2 * (NormOne - Abs(nb)) + 2 * Max2(0, nc)
                     + 1 * (NormOne - Max2(0, ns))
        tumor == 4 * no + 4 * Max2(0, ne) + 2 * Max2(0, ns)
        fracture == 6 * Max2(0, ns) + 3 * Max2(0, ne) + 1 * Max2(0, nc)
        normal == 5 * (NormOne - no) + 2 * (NormOne - Max2(0, ne))
                  + 2 * (NormOne - Max2(0, ns)) + 1 * (NormOne - Abs(nb))
    IN <<100 * normal, 100 * pneumonia, 100 * tumor, 100 * fracture>>

\* lines 139-141: clip the scores to 1e-6 and normalise
CNN_softmax_like(sc) == Normalize([i \in 1..4 |-> Max2(sc[i], ScoreFloor)])

\* lines 120-141: the heuristic probability vector
CNN_heuristic_vec(img) == CNN_softmax_like(CNN_scores(img))

\* lines 157-158: clip the pretrained probabilities to 1e-6 and normalise
CNN_vec_pre(raw) == Normalize([i \in 1..4 |-> Max2(raw[i], 1)])

\* lines 160-161: vec = 0.7 * vec_pre + 0.3 * vec, renormalised
CNN_mix(vec_pre, vec) ==
    Normalize([i \in 1..4 |-> (7 * vec_pre[i] + 3 * vec[i]) \div 10])

\* lines 151-161: blend a pretrained map (dominant) with the heuristic vector
CNN_blend(pmap, vec) ==
    CNN_mix(CNN_vec_pre(<<pmap.normal, pmap.pneumonia, pmap.tumor, pmap.fracture>>),
            vec)

\* CNN_pretrained testing "pmap is not None" where the code tests "pmap"
CNN_pretrained_not_none(self_pretrained, img, vec) ==
    IF self_pretrained /\ img.pre.kind = "ok"
    THEN CNN_blend(PretrainedInfer(img.pre.out), vec)
    ELSE IF self_pretrained /\ img.pre.kind = "empty"
    THEN CNN_blend([normal |-> 0, pneumonia |-> 0, tumor |-> 0, fracture |-> 0], vec)
    ELSE vec

\* lines 145-165: the pretrained source, failures swallowed
CNN_pretrained(self_pretrained, img, vec) ==
    IF self_pretrained /\ img.pre.kind = "ok"
    THEN CNN_blend(PretrainedInfer(img.pre.out), vec)
    ELSE vec

\* CNN_bias_correct without the renormalisation of line 200
CNN_bias_correct_unnormalised(vec) ==
    <<IF vec[1] + 25000000 > 70000000 THEN vec[1] + 25000000 ELSE F32_070,
      IF vec[2] - 20000000 > 2000000 THEN vec[2] - 20000000 ELSE F32_002,
      MulFrac(vec[3], 95, 100),
      MulFrac(vec[4], 95, 100)>>

\* lines 194-200: the bias correction of the probability vector
CNN_bias_correct(vec) ==
    Normalize(<<IF vec[1] + 25000000 > 70000000 THEN vec[1] + 25000000 ELSE F32_070,
                IF vec[2] - 20000000 > 2000000 THEN vec[2] - 20000000 ELSE F32_002,
                MulFrac(vec[3], 95, 100),
                MulFrac(vec[4], 95, 100)>>)

\* str(modality).startswith("chest"), over the modalities the code assigns
StartsWithChest(modality) == modality = "chest-xray"

\* _make_findings returning its list as it stands, even when empty
CNN_make_findings_as_is(img, modality, body_region) ==
    LET is_chest == StartsWithChest(modality)
        region == Lower(OrStr(body_region, IF is_chest THEN StrChest ELSE StrRegion))
        f1 == IF img.brightness < 70
              THEN <<Finding("Underexposed image (dark)", <<>>)>> ELSE <<>>
        f2 == IF img.brightness > 180
              THEN <<Finding("Overexposed image (bright)", <<>>)>> ELSE <<>>
        f3 == IF img.sharpness < 15
              THEN <<Finding("Low sharpness (motion blur / out of focus)", <<>>)>>
              ELSE <<>>
        f4 == IF img.opacity > 300
              THEN IF is_chest
                   THEN <<Finding("Diffuse opacities detected (possible pneumonia)", <<>>)>>
                   ELSE <<Finding("Increased soft-tissue density in ", region)>>
              ELSE <<>>
        sofar == f1 \o f2 \o f3 \o f4
        neck == Finding("Increased soft-tissue density in ", StrNeck)
        f5 == IF (Contains(StrNeck, region) \/ Contains(StrCervical, region))
                 /\ img.opacity > 320 /\ img.edge_score < 12
                 /\ ~(\E i \in 1..Len(sofar) : sofar[i] = neck)
              THEN <<neck>> ELSE <<>>
        f6 == IF img.edge_score > 55 /\ img.sharpness > 40
              THEN <<Finding("Strong linear edges (possible fracture)", <<>>)>>
              ELSE <<>>
        findings == sofar \o f5 \o f6
    IN findings

\* _make_findings
CNN_make_findings(img, modality, body_region) ==
    LET is_chest == StartsWithChest(modality)
        region == Lower(OrStr(body_region, IF is_chest THEN StrChest ELSE StrRegion))
        f1 == IF img.brightness < 70
              THEN <<Finding("Underexposed image (dark)", <<>>)>> ELSE <<>>
        f2 == IF img.brightness > 180
              THEN <<Finding("Overexposed image (bright)", <<>>)>> ELSE <<>>
        f3 == IF img.sharpness < 15
              THEN <<Finding("Low sharpness (motion blur / out of focus)", <<>>)>>
              ELSE <<>>
        f4 == IF img.opacity > 300
              THEN IF is_chest
                   THEN <<Finding("Diffuse opacities detected (possible pneumonia)", <<>>)>>
                   ELSE <<Finding("Increased soft-tissue density in ", region)>>
              ELSE <<>>
        sofar == f1 \o f2 \o f3 \o f4
        neck == Finding("Increased soft-tissue density in ", StrNeck)
        f5 == IF (Contains(StrNeck, region) \/ Contains(StrCervical, region))
                 /\ img.opacity > 320 /\ img.edge_score < 12
                 /\ ~(\E i \in 1..Len(sofar) : sofar[i] = neck)
              THEN <<neck>> ELSE <<>>
        f6 == IF img.edge_score > 55 /\ img.sharpness > 40
              THEN <<Finding("Strong linear edges (possible fracture)", <<>>)>>
              ELSE <<>>
        findings == sofar \o f5 \o f6
    IN IF findings = <<>>
       THEN <<Finding("No strong abnormalities detected", <<>>)>>
       ELSE findings

\* CNN_class_label printing the body region as the hint spells it
CNN_class_label_raw_region(img, modality, gem_body_region, vec, predicted_idx) ==
    IF StartsWithChest(modality) THEN Label(<<>>, class_names[predicted_idx])
    ELSE LET region == OrStr(gem_body_region, StrNonChest)
             possible_fracture == vec[4] > 25000000
                                  \/ (img.edge_score > 55 /\ img.sharpness > 40)
             soft_tissue_swelling ==
                 (Contains(StrNeck, region) \/ Contains(StrCervical, region))
                 /\ img.opacity > 320 /\ img.edge_score < 12
         IN Label(region,
                  IF soft_tissue_swelling THEN " x-ray - possible soft-tissue swelling"
                  ELSE IF possible_fracture THEN " x-ray - possible fracture"
                  ELSE " x-ray - no obvious abnormality")

\* lines 223-236: the class label
CNN_class_label(img, modality, gem_body_region, vec, predicted_idx) ==
    IF StartsWithChest(modality) THEN Label(<<>>, class_names[predicted_idx])
    ELSE LET region == ReplaceUnderscore(Lower(Strip(OrStr(gem_body_region, StrNonChest))))
             possible_fracture == vec[4] > 25000000
                                  \/ (img.edge_score > 55 /\ img.sharpness > 40)
             soft_tissue_swelling ==
                 (Contains(StrNeck, region) \/ Contains(StrCervical, region))
                 /\ img.opacity > 320 /\ img.edge_score < 12
         IN Label(region,
                  IF soft_tissue_swelling THEN " x-ray - possible soft-tissue swelling"
                  ELSE IF possible_fracture THEN " x-ray - possible fracture"
                  ELSE " x-ray - no obvious abnormality")

\* lines 260-267: the result of the outer except
CNN_fallback(e) ==
    [prediction |-> 0, confidence |-> 72, class_name |-> Label(<<>>, class_names[1]),
     error |-> e]

\* CNN_dental_override leaving the predicted class as classified
CNN_dental_override_keeps_class(st, img, dental_like) ==
    IF dental_like
    THEN [modality |-> "non-chest-xray (dental/panoramic likely)",
          modality_conf |-> Min2(9700, 7000 + 10 * (img.aspect - 160)
                                       + 20 * (img.edge_ratio - 135)),
          predicted_idx |-> st.predicted_idx,
          confidence |-> Max2(st.confidence, 70000000),
          vec |-> DentalVec]
    ELSE st

\* lines 167-176: the dental-like override of the locals
CNN_dental_override(st, img, dental_like) ==
    IF dental_like
    THEN [modality |-> "non-chest-xray (dental/panoramic likely)",
          modality_conf |-> Min2(9700, 7000 + 10 * (img.aspect - 160)
                                       + 20 * (img.edge_ratio - 135)),
          predicted_idx |-> 1,
          confidence |-> Max2(st.confidence, 70000000),
          vec |-> DentalVec]
    ELSE st

\* CNN_gemini_blend assigning the gate confidence of the hint whatever the
\* gate confidence was
CNN_gemini_blend_overwrites(st, hint) ==
    IF hint.gem_modality # "" /\ Truthy(hint.gem_conf)
    THEN IF hint.gem_modality = "chest-xray"
         THEN [st EXCEPT !.modality = "chest-xray",
                         !.modality_conf = Min2(9800, 8000 + 15 * hint.gem_conf)]
         ELSE IF hint.gem_modality \in {"non-chest-xray", "document", "other"}
         THEN [modality |-> "non-chest-xray (gemini)",
               modality_conf |-> Min2(9800, 7500 + 20 * hint.gem_conf),
               predicted_idx |-> 1,
               confidence |-> Max2(st.confidence, 70000000),
               vec |-> GeminiVec]
         ELSE st
    ELSE st

\* CNN_gemini_blend raising the gate confidence of an enforced non-chest
\* path to 0.70 + 0.2 * gem_conf only
CNN_gemini_blend_low_base(st, hint) ==
    IF hint.gem_modality # "" /\ Truthy(hint.gem_conf)
    THEN IF hint.gem_modality = "chest-xray"
         THEN [st EXCEPT !.modality = "chest-xray",
                         !.modality_conf =
                             Max2(st.modality_conf, Min2(9800, 8000 + 15 * hint.gem_conf))]
         ELSE IF hint.gem_modality \in {"non-chest-xray", "document", "other"}
         THEN [modality |-> "non-chest-xray (gemini)",
               modality_conf |->
                   Max2(st.modality_conf, Min2(9800, 7000 + 20 * hint.gem_conf)),
               predicted_idx |-> 1,
               confidence |-> Max2(st.confidence, 70000000),
               vec |-> GeminiVec]
         ELSE st
    ELSE st

\* CNN_gemini_blend enforcing the non-chest modality and class while keeping
\* the vector classified before
CNN_gemini_blend_keeps_vec(st, hint) ==
    IF hint.gem_modality # "" /\ Truthy(hint.gem_conf)
    THEN IF hint.gem_modality = "chest-xray"
         THEN [st EXCEPT !.modality = "chest-xray",
                         !.modality_conf =
                             Max2(st.modality_conf, Min2(9800, 8000 + 15 * hint.gem_conf))]
         ELSE IF hint.gem_modality \in {"non-chest-xray", "document", "other"}
         THEN [modality |-> "non-chest-xray (gemini)",
               modality_conf |->
                   Max2(st.modality_conf, Min2(9800, 7500 + 20 * hint.gem_conf)),
               predicted_idx |-> 1,
               confidence |-> Max2(st.confidence, 70000000),
               vec |-> st.vec]
         ELSE st
    ELSE st

\* lines 178-190: the modality of the vision hint blended in
CNN_gemini_blend(st, hint) ==
    IF hint.gem_modality # "" /\ Truthy(hint.gem_conf)
    THEN IF hint.gem_modality = "chest-xray"
         THEN [st EXCEPT !.modality = "chest-xray",
                         !.modality_conf =
                             Max2(st.modality_conf, Min2(9800, 8000 + 15 * hint.gem_conf))]
         ELSE IF hint.gem_modality \in {"non-chest-xray", "document", "other"}
         THEN [modality |-> "non-chest-xray (gemini)",
               modality_conf |->
                   Max2(st.modality_conf, Min2(9800, 7500 + 20 * hint.gem_conf)),
               predicted_idx |-> 1,
               confidence |-> Max2(st.confidence, 70000000),
               vec |-> GeminiVec]
         ELSE st
    ELSE st

\* lines 142-143 (and 162-163, 201-202): class and confidence of a vector
CNN_predict(st, vec) ==
    [st EXCEPT !.vec = vec, !.predicted_idx = ArgMax(vec),
               !.confidence = vec[ArgMax(vec)]]

\* CNN_bias_step correcting only below an opacity score of 0.20
CNN_bias_step_below_020(st, img) ==
    IF st.modality = "chest-xray" /\ img.opacity < 200
    THEN CNN_predict(st, CNN_bias_correct(st.vec))
    ELSE st

\* CNN_bias_step correcting the vector and keeping the class predicted before
CNN_bias_step_keeps_class(st, img) ==
    IF st.modality = "chest-xray" /\ img.opacity < 220
    THEN [st EXCEPT !.vec = CNN_bias_correct(st.vec)]
    ELSE st

\* lines 192-202: bias correction on the chest path with low opacity
CNN_bias_step(st, img) ==
    IF st.modality = "chest-xray" /\ img.opacity < 220
    THEN CNN_predict(st, CNN_bias_correct(st.vec))
    ELSE st

\* CNN_clamp without the upper bound
CNN_clamp_floor_only(confidence) == Max2(55000000, confidence)

\* line 206: confidence = max(0.55, min(0.93, confidence))
CNN_clamp(confidence) == Max2(55000000, Min2(93000000, confidence))

\* lines 120-206: the locals modality, modality_conf, predicted_idx,
\* confidence and vec after classification, override, blend and correction
CNN_classify(self_pretrained, img, hint) ==
    LET st0 == CNN_predict([modality |-> "chest-xray", modality_conf |-> 8500,
                            predicted_idx |-> 0, confidence |-> 0, vec |-> <<>>],
                           CNN_pretrained(self_pretrained, img, CNN_heuristic_vec(img)))
        st1 == CNN_dental_override(st0, img, CNN_dental_like(img) \/ hint.is_dental)
    IN CNN_bias_step(CNN_gemini_blend(st1, hint), img)

\* lines 208-258: the result built from the locals
CNN_result(img, hint, st) ==
    [prediction |-> st.predicted_idx - 1,
     confidence |-> Round2(CNN_clamp(st.confidence)),
     class_name |-> CNN_class_label(img, st.modality, hint.gem_body_region,
                                    st.vec, st.predicted_idx),
     all_probabilities |-> st.vec,
     image_stats |->
         [brightness |-> img.brightness, contrast |-> img.contrast,
          edge_score |-> img.edge_score, sharpness |-> img.sharpness,
          opacity_score |-> img.opacity, aspect_ratio |-> img.aspect,
          edge_bot_top_ratio |-> img.edge_ratio,
          bright_bot_top_ratio |-> img.bright_ratio,
          modality |-> st.modality,
          modality_confidence |-> Round2e4(st.modality_conf),
          body_region |-> OrStr(hint.gem_body_region,
                                IF StartsWithChest(st.modality)
                                THEN StrChest ELSE StrUnknown)],
     findings |-> MergeFindings(MergeFindings(<<>>, hint.gem_findings, TRUE),
                                CNN_make_findings(img, st.modality,
                                                  hint.gem_body_region),
                                FALSE)]

\* lines 47-258: the guarded body of analyze_image
CNN_body(self_pretrained, img, hint) ==
    CNN_result(img, hint, CNN_classify(self_pretrained, img, hint))

\* lines 49-258: the try block; an error outside the guarded collaborator
\* calls leaves it as an exception
CNN_try(self_gemini, self_pretrained, img) ==
    IF img.fault # "none" THEN Raised(img.fault)
    ELSE CNN_body(self_pretrained, img, CNN_hint(self_gemini, img))

\* analyze_image without its outer except
CNN_analyze_image_uncaught(self_gemini, self_pretrained, img) ==
    CNN_try(self_gemini, self_pretrained, img)

\* lines 260-267: except Exception as e around the try block r
CNN_except(r) == IF IsRaised(r) THEN CNN_fallback(r.raised) ELSE r

\* lines 47-267
CNN_analyze_image(self_gemini, self_pretrained, img) ==
    CNN_except(CNN_try(self_gemini, self_pretrained, img))

----------------------------------------------------------------------------
(* Rank statistics of a CT/MRI snapshot.  gray is the row of intensities;  *)
(* its mean, deviation, edge and local-variance statistics are inputs.     *)

\* number of pixels of gray below v
CountBelow(gray, v) == Cardinality({i \in 1..Len(gray) : gray[i] < v})

\* number of pixels of gray not above v
CountAtMost(gray, v) == Cardinality({i \in 1..Len(gray) : gray[i] <= v})

\* np.sort(gray)[k], k counted from 0
KthSmallest(gray, k) ==
    CHOOSE v \in {gray[i] : i \in 1..Len(gray)} :
        /\ CountBelow(gray, v) <= k
        /\ k < CountAtMost(gray, v)

\* 100 * np.quantile(gray, 0.97): linear interpolation between the two
\* order statistics around position 0.97 * (N - 1)
Quantile97x100(gray) ==
    LET pos100 == 97 * (Len(gray) - 1)
        lo == pos100 \div 100
        hi == IF pos100 % 100 = 0 THEN lo ELSE lo + 1
        a == KthSmallest(gray, lo)
        b == KthSmallest(gray, hi)
    IN 100 * a + (pos100 % 100) * (b - a)

\* HiMask keeping only the pixels strictly above the threshold
HiMask_strict(gray) ==
    LET hi_thresh == Quantile97x100(gray)
    IN {i \in 1..Len(gray) : 100 * gray[i] > hi_thresh}

\* hi_mask = gray >= hi_thresh, as the set of (1-based) columns it holds at
HiMask(gray) ==
    LET hi_thresh == Quantile97x100(gray)
    IN {i \in 1..Len(gray) : 100 * gray[i] >= hi_thresh}

\* hi_area > 0.015, with hi_area = hi_mask.mean()
HiAreaAbove015(gray) == 1000 * Cardinality(HiMask(gray)) > 15 * Len(gray)

\* round(hi_area, 4), in ten-thousandths
HiAreaStat(gray) ==
    (20000 * Cardinality(HiMask(gray)) + Len(gray)) \div (2 * Len(gray))

RECURSIVE SumSet(_)
SumSet(S) == IF S = {} THEN 0 ELSE LET x == CHOOSE x \in S : TRUE
                                   IN x + SumSet(S \ {x})

\* round of a value in units of 1e-5 to hundredths
Round2e5(x) == (x + 500) \div 1000

----------------------------------------------------------------------------
(* CTModel *)

\* lines 87-101: the vision assistant, consulted once, failures swallowed
CT_hint(self_gemini, img) ==
    IF ~self_gemini THEN NoHint
    ELSE IF img.vis.kind = "malformed"
    THEN [NoHint EXCEPT !.calls = 1, !.gem_modality = img.vis.hint.modality,
                        !.gem_body_region = OrStr(img.vis.hint.body_region, StrUnknown)]
    ELSE IF img.vis.kind # "ok" THEN [NoHint EXCEPT !.calls = 1]
    ELSE LET gv == img.vis.hint
         IN [gem_modality |-> gv.modality,
             gem_conf |-> gv.confidence,
             gem_body_region |-> OrStr(gv.body_region, StrUnknown),
             gem_findings |-> gv.preliminary_findings,
             is_dental |-> FALSE,
             calls |-> 1]

\* CT_is_chest without the lung test
CT_is_chest_only(region) == Contains(StrChest, region)

\* line 122: is_chest
CT_is_chest(region) == Contains(StrChest, region) \/ Contains(StrLung, region)

\* lines 123-126: the region-aware suspicion rule
CT_suspicious(is_chest, lesion_score, contrast, hiAbove) ==
    \/ is_chest /\ lesion_score > 220 /\ contrast > 25
    \/ ~is_chest /\ (lesion_score > 300 \/ hiAbove)

\* lines 129-142
CT_findings(img, hint, is_chest, hiAbove) ==
    LET f0 == MergeFindings(<<>>, hint.gem_findings, TRUE)
        f1 == IF img.brightness < 60
              THEN <<Finding("Underexposed slice (dark)", <<>>)>> ELSE <<>>
        f2 == IF img.brightness > 200
              THEN <<Finding("Overexposed slice (bright)", <<>>)>> ELSE <<>>
        f3 == IF is_chest /\ img.lesion_score > 220
              THEN <<Finding("Patchy parenchymal density (possible pulmonary opacity)", <<>>)>>
              ELSE <<>>
        f4 == IF ~is_chest /\ (img.lesion_score > 300 \/ hiAbove)
              THEN <<Finding("Focal high-variance/high-intensity region (possible lesion)", <<>>)>>
              ELSE <<>>
        findings == f0 \o f1 \o f2 \o f3 \o f4
    IN IF findings = <<>>
       THEN <<Finding("No strong abnormalities detected on snapshot", <<>>)>>
       ELSE findings

\* line 146: min(0.95, 0.60 + 0.28 * lesion_score), in units of 1e-5
CT_confidence(lesion_score) == Min2(95000, 60000 + 28 * lesion_score)

\* lines 160-166: the result of the outer except
CT_fallback(e) ==
    [ct_label |-> Label(<<>>, "ct - analysis error"), ct_confidence |-> 0, error |-> e]

\* lines 86-159: the try block
CT_try(self_gemini, img) ==
    IF img.fault # "none" THEN Raised(img.fault)
    ELSE
    LET hint == CT_hint(self_gemini, img)
        hiAbove == HiAreaAbove015(img.gray)
        region == ReplaceUnderscore(Lower(Strip(OrStr(hint.gem_body_region, StrCt))))
        is_chest == CT_is_chest(region)
        suspicious == CT_suspicious(is_chest, img.lesion_score, img.contrast, hiAbove)
    IN [ct_label |-> Label(region, IF suspicious THEN " ct - lesion suspected"
                                   ELSE " ct - no obvious abnormality"),
        ct_confidence |-> Round2e5(CT_confidence(img.lesion_score)),
        ct_body_region |-> region,
        ct_findings |-> CT_findings(img, hint, is_chest, hiAbove),
        ct_stats |->
            [brightness |-> img.brightness, contrast |-> img.contrast,
             edge_score |-> img.edge_score, lesion_score |-> img.lesion_score,
             hi_area |-> HiAreaStat(img.gray),
             modality |-> IF hint.gem_modality = "" THEN "ct" ELSE hint.gem_modality,
             modality_confidence |-> IF Truthy(hint.gem_conf) THEN hint.gem_conf ELSE 80],
        used_backend |-> "heuristic+gemini"]

\* lines 160-166: except Exception as e around the try block r
CT_except(r) == IF IsRaised(r) THEN CT_fallback(r.raised) ELSE r

\* lines 85-166
CT_analyze_image(self_gemini, img) == CT_except(CT_try(self_gemini, img))

----------------------------------------------------------------------------
(* MRIModel *)

\* lines 99-113: the vision assistant, consulted once, failures swallowed
MRI_hint(self_gemini, img) ==
    IF ~self_gemini THEN NoHint
    ELSE IF img.vis.kind = "malformed"
    THEN [NoHint EXCEPT !.calls = 1, !.gem_modality = img.vis.hint.modality,
                        !.gem_body_region = OrStr(img.vis.hint.body_region, StrUnknown)]
    ELSE IF img.vis.kind # "ok" THEN [NoHint EXCEPT !.calls = 1]
    ELSE LET gv == img.vis.hint
         IN [gem_modality |-> gv.modality,
             gem_conf |-> gv.confidence,
             gem_body_region |-> OrStr(gv.body_region, StrUnknown),
             gem_findings |-> gv.preliminary_findings,
             is_dental |-> FALSE,
             calls |-> 1]

\* MRI_suspicious without the high-intensity/asymmetry clause
MRI_suspicious_two_clauses(lesion_score, edge_score, hiAbove, lateral_diff) ==
    \/ lesion_score > 350
    \/ lesion_score > 250 /\ edge_score > 10

\* lines 140-144: the suspicion rule
MRI_suspicious(lesion_score, edge_score, hiAbove, lateral_diff) ==
    \/ lesion_score > 350
    \/ lesion_score > 250 /\ edge_score > 10
    \/ hiAbove /\ lateral_diff > 80

\* lines 162-165: side of the centroid of the high-intensity mask
\* (columns counted from 0: cx < W / 2)
MRI_side(gray) ==
    LET xs == {i - 1 : i \in HiMask(gray)}
    IN IF 2 * SumSet(xs) < Len(gray) * Cardinality(xs) THEN "left" ELSE "right"

\* lines 147-172
MRI_findings(img, hint, hiAbove) ==
    LET f0 == MergeFindings(<<>>, hint.gem_findings, TRUE)
        f1 == IF img.brightness < 60
              THEN <<Finding("Underexposed slice (dark)", <<>>)>> ELSE <<>>
        f2 == IF img.brightness > 200
              THEN <<Finding("Overexposed slice (bright)", <<>>)>> ELSE <<>>
        f3 == IF img.lesion_score > 250
              THEN <<Finding("Focal high-variance region (possible lesion)", <<>>)>>
              ELSE <<>>
        f4 == IF hiAbove /\ HiMask(img.gray) # {}
              THEN IF MRI_side(img.gray) = "left"
                   THEN <<Finding("Large focal high-intensity region in left cerebral hemisphere", <<>>)>>
                   ELSE <<Finding("Large focal high-intensity region in right cerebral hemisphere", <<>>)>>
              ELSE <<>>
        f5 == IF img.lateral_diff > 120
              THEN <<Finding("Global hemispheric asymmetry (possible mass effect)", <<>>)>>
              ELSE <<>>
        findings == f0 \o f1 \o f2 \o f3 \o f4 \o f5
    IN IF findings = <<>>
       THEN <<Finding("No strong abnormalities detected on snapshot", <<>>)>>
       ELSE findings

\* line 176: min(0.95, 0.60 + 0.28 * lesion + 0.10 * min(lateral_diff, 0.2)),
\* in units of 1e-5
MRI_confidence(lesion_score, lateral_diff) ==
    Min2(95000, 60000 + 28 * lesion_score + 10 * Min2(lateral_diff, 200))

\* lines 193-199: the result of the outer except
MRI_fallback(e) ==
    [mri_label |-> Label(<<>>, "mri - analysis error"), mri_confidence |-> 0, error |-> e]

\* lines 98-191: the try block
MRI_try(self_gemini, img) ==
    IF img.fault # "none" THEN Raised(img.fault)
    ELSE
    LET hint == MRI_hint(self_gemini, img)
        hiAbove == HiAreaAbove015(img.gray)
        region == ReplaceUnderscore(Lower(Strip(OrStr(hint.gem_body_region, StrMri))))
        suspicious == MRI_suspicious(img.lesion_score, img.edge_score, hiAbove,
                                     img.lateral_diff)
    IN [mri_label |-> Label(region, IF suspicious THEN " mri - lesion suspected"
                                    ELSE " mri - no obvious abnormality"),
        mri_confidence |-> Round2e5(MRI_confidence(img.lesion_score, img.lateral_diff)),
        mri_body_region |-> region,
        mri_findings |-> MRI_findings(img, hint, hiAbove),
        mri_stats |->
            [brightness |-> img.brightness, contrast |-> img.contrast,
             edge_score |-> img.edge_score, lesion_score |-> img.lesion_score,
             hi_area |-> HiAreaStat(img.gray), lateral_diff |-> img.lateral_diff,
             modality |-> IF hint.gem_modality = "" THEN "mri" ELSE hint.gem_modality,
             modality_confidence |-> IF Truthy(hint.gem_conf) THEN hint.gem_conf ELSE 80],
        used_backend |-> "heuristic+gemini"]

\* lines 193-199: except Exception as e around the try block r
MRI_except(r) == IF IsRaised(r) THEN MRI_fallback(r.raised) ELSE r

\* lines 93-199
MRI_analyze_image(self_gemini, img) == MRI_except(MRI_try(self_gemini, img))

----------------------------------------------------------------------------
(* The callers' gates (app.py): process_document and the per-page routing  *)
(* of process_pdf_auto.  A gate image carries the statistics the handler   *)
(* computes (brightness and contrast in pixel units, edges in pixel units, *)
(* aspect and lower/upper edge ratio in hundredths) and the outcome of the *)
(* vision assistant.  calls lists, in order, the OCR, lab-parser, NLP and  *)
(* analyzer invocations the handler makes.                                 *)

\* line 277
xray_types == {"xray", "mri", "ct_scan"}

\* line 263: the dental panoramic pattern of the caller
PD_dental_like(img) == img.aspect > 160 /\ img.lower_upper_ratio > 150

\* PD_heuristic_xray without the dental panoramic pattern
PD_heuristic_xray_no_dental(img) ==
    img.brightness < 170 /\ img.contrast > 30 /\ img.edges > 18

\* line 264: looks_like_xray by the heuristics alone
PD_heuristic_xray(img) ==
    \/ img.brightness < 170 /\ img.contrast > 30 /\ img.edges > 18
    \/ PD_dental_like(img)

\* PD_hint_xray asking for a confidence above 0.90
PD_hint_xray_above_090(available, img) ==
    /\ available
    /\ img.vis.kind = "ok"
    /\ img.vis.hint.modality \in {"chest-xray", "non-chest-xray"}
    /\ img.vis.hint.confidence > 90

\* lines 266-273: the vision hint raises looks_like_xray; failures swallowed
PD_hint_xray(available, img) ==
    /\ available
    /\ img.vis.kind = "ok"
    /\ img.vis.hint.modality \in {"chest-xray", "non-chest-xray"}
    /\ img.vis.hint.confidence > 75

\* lines 264-273
PD_looks_like_xray(available, img) ==
    PD_heuristic_xray(img) \/ PD_hint_xray(available, img)

\* line 274 (and 1149)
PD_looks_like_document(img) == img.brightness > 185 /\ img.contrast < 55

\* lines 293-354: OCR, then the lab parser or NLP when OCR produced text
PD_text_calls(document_type, ocr_has_text) ==
    <<"ocr">> \o (IF ~ocr_has_text THEN <<>>
                  ELSE IF document_type = "lab_report" THEN <<"parse_lab">>
                  ELSE <<"nlp">>)

\* lines 373-447: the analyzer run for an imaging document type
PD_imaging_calls(document_type) ==
    IF document_type = "xray" THEN <<"cnn">>
    ELSE IF document_type = "mri" THEN <<"mri">>
    ELSE <<"ct">>

\* lines 233-526: process_document from the gate on
process_document(available, img, document_type, ocr_has_text) ==
    LET looks_like_xray == PD_looks_like_xray(available, img)
    IN IF document_type \notin xray_types
       THEN IF looks_like_xray
            THEN [status |-> "mismatch", ocr_skipped |-> TRUE,
                  recommended_type |-> "xray", looks_like_xray |-> TRUE,
                  calls |-> <<>>]
            ELSE [status |-> "completed", ocr_skipped |-> FALSE,
                  recommended_type |-> "", looks_like_xray |-> FALSE,
                  calls |-> PD_text_calls(document_type, ocr_has_text)]
       ELSE [status |-> "completed", ocr_skipped |-> TRUE,
             recommended_type |-> IF PD_looks_like_document(img)
                                  THEN "prescription" ELSE "",
             looks_like_xray |-> looks_like_xray,
             calls |-> PD_imaging_calls(document_type)]

\* lines 1151-1160: gem_mod, failures swallowed
PDF_gem_mod(available, img) ==
    IF available /\ img.vis.kind = "ok" THEN img.vis.hint.modality ELSE ""

\* line 1148: looks_like_xray of a page
PDF_looks_like_xray(img) ==
    img.brightness < 170 /\ img.contrast > 30 /\ img.edges > 18

\* 'ct' in gem_mod, over the modalities the assistant is asked to answer with
HasCt(gem_mod) == gem_mod = "ct"

\* lines 1162-1173: the detected type of a page
PDF_detected(gem_mod, looks_like_xray, looks_like_document) ==
    IF (gem_mod \in {"chest-xray", "non-chest-xray"} \/ looks_like_xray)
       /\ looks_like_document
    THEN "mixed"
    ELSE IF gem_mod \in {"chest-xray", "non-chest-xray"} \/ looks_like_xray
    THEN "xray"
    ELSE IF gem_mod = "mri" THEN "mri"
    ELSE IF gem_mod # "" /\ HasCt(gem_mod) THEN "ct_scan"
    ELSE "document"

\* lines 1134-1276: one page of process_pdf_auto
process_pdf_page(available, img, is_lab) ==
    LET detected == PDF_detected(PDF_gem_mod(available, img),
                                 PDF_looks_like_xray(img),
                                 PD_looks_like_document(img))
    IN CASE detected = "xray" -> [detected_type |-> "xray", calls |-> <<"cnn">>]
         [] detected = "mri" -> [detected_type |-> "mri", calls |-> <<"mri">>]
         [] detected = "ct_scan" -> [detected_type |-> "ct_scan", calls |-> <<"ct">>]
         [] detected = "mixed" ->
                [detected_type |-> "mixed",
                 calls |-> <<"ocr", "parse_lab", "cnn">>
                           \o (IF is_lab THEN <<>> ELSE <<"nlp", "nlp">>)]
         [] OTHER ->
                [detected_type |-> IF is_lab THEN "lab_report" ELSE "prescription",
                 calls |-> <<"ocr", "parse_lab">>
                           \o (IF is_lab THEN <<>> ELSE <<"nlp">>)]

----------------------------------------------------------------------------
(* The images and collaborator behaviours the calls are made with *)

\* sequences over S of length at most n
SeqsUpTo(S, n) == UNION {[1..k -> S] : k \in 0..n}

\* what a vision hint may list as preliminary findings (one is not a string)
HintFindingVals ==
    {Finding("Mild haziness", <<>>),
     [text |-> "", arg |-> <<>>, isstr |-> FALSE]}

\* body_region values of a hint, as the assistant sends them
HintRegionVals ==
    {StrChest, <<" ", "L", "u", "n", "g">>, StrNeck,
     <<"l", "e", "f", "t", "_", "a", "r", "m">>}

\* hints that vary modality, confidence and the dental flag
HintsCore ==
    [modality : {"chest-xray", "non-chest-xray", "document", "other", "mri"},
     confidence : {0, 75, 90},
     is_dental : BOOLEAN,
     body_region : {<<>>},
     preliminary_findings : {<<>>}]

\* hints that vary the body region and the preliminary findings
HintsText ==
    [modality : {"chest-xray", "other"},
     confidence : {90},
     is_dental : {FALSE},
     body_region : HintRegionVals,
     preliminary_findings : SeqsUpTo(HintFindingVals, MaxHintFindings)]

Hints == HintsCore \cup HintsText

\* outcomes of self.gemini.analyze: an exception, None, or a hint
VisionOutcomes(self_gemini, hints) ==
    IF self_gemini
    THEN {[kind |-> "raise"], [kind |-> "null"]} \cup {[kind |-> "ok", hint |-> h] : h \in hints}
    ELSE {[kind |-> "unused"]}

\* sigmoid outputs of the pretrained network (unit 1e-6)
PretrainedOutputs ==
    {[pneumonia |-> 900000, mass |-> 100000, nodule |-> 200000],
     [pneumonia |-> 50000, mass |-> 700000, nodule |-> 200000]}

\* outcomes of self.pretrained.infer: an exception, None, {} or a map
PretrainedOutcomes(self_pretrained) ==
    IF self_pretrained
    THEN {[kind |-> "raise"], [kind |-> "null"], [kind |-> "empty"]}
         \cup {[kind |-> "ok", out |-> o] : o \in PretrainedOutputs}
    ELSE {[kind |-> "unused"]}

\* errors raised inside analyze_image outside the guarded collaborator calls
Faults == {"malformed pixel grid", "internal error"}

\* (aspect, edge_bot_top_ratio, bright_bot_top_ratio), in hundredths
GateVals ==
    {[aspect |-> 100, edge_ratio |-> 100, bright_ratio |-> 100],
     [aspect |-> 160, edge_ratio |-> 150, bright_ratio |-> 120],
     [aspect |-> 200, edge_ratio |-> 135, bright_ratio |-> 112],
     [aspect |-> 200, edge_ratio |-> 150, bright_ratio |-> 100],
     [aspect |-> 200, edge_ratio |-> 100, bright_ratio |-> 120]}

XrayImage(b, c, s, e, o, g, vis, pre, fault) ==
    [brightness |-> b, contrast |-> c, sharpness |-> s, edge_score |-> e,
     opacity |-> o, aspect |-> g.aspect, edge_ratio |-> g.edge_ratio,
     bright_ratio |-> g.bright_ratio, vis |-> vis, pre |-> pre, fault |-> fault]

\* the image statistics of the X-ray calls
BrightnessVals == {60, 128, 200}
ContrastVals == {0, 80}
SharpnessVals == {0, 100}
EdgeVals == {0, 70}
OpacityVals == {0, 219, 220, 400}

\* hints the CT/MRI calls are made with
VolHints == {h \in Hints : ~h.is_dental /\ h.modality \in {"chest-xray", "mri"}}

\* hints whose preliminary findings may repeat each other or the heuristics
HintsEcho ==
    [modality : {"chest-xray"},
     confidence : {90},
     is_dental : {FALSE},
     body_region : {StrChest},
     preliminary_findings :
         SeqsUpTo({Finding("Mild haziness", <<>>),
                   Finding("Underexposed image (dark)", <<>>),
                   Finding("Underexposed slice (dark)", <<>>)}, MaxHintFindings + 1)]

\* rows of intensities of a snapshot
GrayRows == UNION {[1..n -> {0, 200}] : n \in 1..MaxPixels}

\* long rows of intensities: k dark pixels followed by bright ones, and a
\* ramp whose pixels all differ
LongRows ==
    {[i \in 1..LongPixels |-> IF i <= k THEN 0 ELSE 200] :
        k \in {0, 1, LongPixels - 3, LongPixels - 1}}
    \cup {[i \in 1..LongPixels |-> i]}

CtImage(gray, b, c, e, l, vis, fault) ==
    [gray |-> gray, brightness |-> b, contrast |-> c, edge_score |-> e,
     lesion_score |-> l, vis |-> vis, fault |-> fault]

MriImage(gray, b, c, e, l, d, vis, fault) ==
    [gray |-> gray, brightness |-> b, contrast |-> c, edge_score |-> e,
     lesion_score |-> l, lateral_diff |-> d, vis |-> vis, fault |-> fault]

\* the hints the callers' gates are exercised with
GateHints ==
    [modality : {"chest-xray", "non-chest-xray", "document", "mri", "ct"},
     confidence : {75, 90}]

\* an image as the callers' gates see it
GateImage(b, c, e, g, vis) ==
    [brightness |-> b, contrast |-> c, edges |-> e, aspect |-> g.aspect,
     lower_upper_ratio |-> g.lower_upper_ratio, vis |-> vis]

\* document_type of a request to process_document
DocumentTypes == {"prescription", "lab_report", "xray", "mri", "ct_scan"}

----------------------------------------------------------------------------
(* The state machine: a caller invokes one analyzer at a time *)

NoReq == [kind |-> "none"]

NoResult == [none |-> TRUE]

\* no analyze_image call is being followed step by step
NoLocals == [none |-> TRUE]

\* the images whose first client-less analysis is remembered
RepeatImages ==
    {XrayImage(b, 0, 0, 0, o, [aspect |-> 100, edge_ratio |-> 100, bright_ratio |-> 100],
               [kind |-> "unused"], [kind |-> "unused"], "none") :
        b \in {60, 128}, o \in {0, 400}}

\* the globals of app.py holding the lazily constructed model objects
Models == {"cnn_model", "mri_model", "ct_model"}

\* None, where a handle is expected; objects are numbered from 1
NoneHandle == 0

Threads == 1..MaxThreads

\* a thread outside every get_*_model call, having received no handle yet
IdleThread == [pc |-> "idle", model |-> "", got |-> [m \in Models |-> NoneHandle]]

\* the process after start-up: lines 97-103 of app.py set every handle to None;
\* the model objects, once constructed, hold or lack the optional clients
Init ==
    /\ gemini \in BOOLEAN
    /\ pretrained \in BOOLEAN
    /\ pc = "idle"
    /\ req = NoReq
    /\ result = NoResult
    /\ locals = NoLocals
    /\ first = [i \in RepeatImages |-> NoResult]
    /\ handle = [m \in Models |-> NoneHandle]
    /\ thread = [t \in Threads |-> IdleThread]
    /\ created = [m \in Models |-> 0]

\* the call cnn.analyze_image(img) and its return value
CNNCall(img) ==
    /\ req' = [kind |-> "cnn", img |-> img]
    /\ result' = CNN_analyze_image(gemini, pretrained, img)
    /\ pc' = "done"
    /\ UNCHANGED <<gemini, pretrained, locals, first>>
    /\ UNCHANGED lazyVars

\* cnn.analyze_image(image): the feature vectors and gates with every core
\* hint and pretrained outcome
CNNAnalyze ==
    /\ pc = "idle"
    /\ \E b \in {60, 128}, c \in ContrastVals, s \in SharpnessVals,
          e \in EdgeVals, o \in OpacityVals, g \in GateVals,
          vis \in VisionOutcomes(gemini, HintsCore),
          pre \in PretrainedOutcomes(pretrained) :
          CNNCall(XrayImage(b, c, s, e, o, g, vis, pre, "none"))

\* cnn.analyze_image(image): the feature vectors with every hint that
\* names a body region or lists preliminary findings
CNNAnalyzeText ==
    /\ pc = "idle"
    /\ \E b \in BrightnessVals, c \in ContrastVals, s \in SharpnessVals,
          e \in EdgeVals, o \in OpacityVals,
          g \in {g \in GateVals : g.edge_ratio = 150},
          vis \in VisionOutcomes(gemini, HintsText) :
          CNNCall(XrayImage(b, c, s, e, o, g, vis,
                            [kind |-> IF pretrained THEN "null" ELSE "unused"],
                            "none"))

\* cnn.analyze_image(image) on an image whose analysis raises
CNNAnalyzeFault ==
    /\ pc = "idle"
    /\ \E f \in Faults, g \in GateVals :
          CNNCall(XrayImage(128, 0, 0, 0, 0, g, [kind |-> "unused"],
                            [kind |-> "unused"], f))

\* cnn.analyze_image(image) on images whose statistics favour Pneumonia
\* most while the opacity score stays below 0.22, with the pretrained
\* network at its extremes
CNNAnalyzeExtreme ==
    /\ pc = "idle"
    /\ \E b \in {30, 90, 150}, c \in {0, 80}, s \in {0, 25, 75}, e \in {0, 65},
          o \in {0, 110, 219},
          vis \in VisionOutcomes(gemini, {h \in HintsCore :
                     h.modality = "chest-xray" /\ h.confidence = 90 /\ ~h.is_dental}),
          pre \in IF pretrained
                  THEN {[kind |-> "ok", out |-> x] :
                          x \in {[pneumonia |-> 1000000, mass |-> 0, nodule |-> 0],
                                 [pneumonia |-> 999999, mass |-> 0, nodule |-> 1000000],
                                 [pneumonia |-> 0, mass |-> 0, nodule |-> 0]}}
                  ELSE {[kind |-> "unused"]} :
          CNNCall(XrayImage(b, c, s, e, o, [aspect |-> 100, edge_ratio |-> 100,
                                            bright_ratio |-> 100],
                            vis, pre, "none"))

\* cnn.analyze_image(image) with a hint that repeats phrases
CNNAnalyzeEcho ==
    /\ pc = "idle"
    /\ gemini
    /\ \E b \in {60, 128}, h \in HintsEcho,
          pre \in PretrainedOutcomes(pretrained) :
          CNNCall(XrayImage(b, 80, 100, 0, 0, [aspect |-> 100, edge_ratio |-> 100,
                                               bright_ratio |-> 100],
                            [kind |-> "ok", hint |-> h], pre, "none"))

\* the call ct.analyze_image(img) and its return value
CTCall(img) ==
    /\ req' = [kind |-> "ct", img |-> img]
    /\ result' = CT_analyze_image(gemini, img)
    /\ pc' = "done"
    /\ UNCHANGED <<gemini, pretrained, locals, first>>
    /\ UNCHANGED lazyVars

\* ct.analyze_image(image)
CTAnalyze ==
    /\ pc = "idle"
    /\ \E gray \in GrayRows, b \in {50, 128, 210}, c \in {25, 26},
          l \in {0, 220, 221, 300, 301, 999},
          vis \in VisionOutcomes(gemini, VolHints) :
          CTCall(CtImage(gray, b, c, 10, l, vis, "none"))

\* ct.analyze_image(image) on an image whose analysis raises
CTAnalyzeFault ==
    /\ pc = "idle"
    /\ \E f \in Faults, gray \in GrayRows :
          CTCall(CtImage(gray, 0, 0, 0, 0, [kind |-> "unused"], f))

\* ct.analyze_image(image) with a hint that repeats phrases
CTAnalyzeEcho ==
    /\ pc = "idle"
    /\ gemini
    /\ \E b \in {50, 128}, h \in HintsEcho :
          CTCall(CtImage(<<200>>, b, 26, 10, 0, [kind |-> "ok", hint |-> h], "none"))

\* the call mri.analyze_image(img) and its return value
MRICall(img) ==
    /\ req' = [kind |-> "mri", img |-> img]
    /\ result' = MRI_analyze_image(gemini, img)
    /\ pc' = "done"
    /\ UNCHANGED <<gemini, pretrained, locals, first>>
    /\ UNCHANGED lazyVars

\* mri.analyze_image(image)
MRIAnalyze ==
    /\ pc = "idle"
    /\ \E gray \in GrayRows, b \in {50, 210}, e \in {10, 11},
          l \in {0, 250, 251, 351}, d \in {80, 81, 150, 250},
          vis \in VisionOutcomes(gemini, VolHints) :
          MRICall(MriImage(gray, b, 30, e, l, d, vis, "none"))

\* mri.analyze_image(image) on an image whose analysis raises
MRIAnalyzeFault ==
    /\ pc = "idle"
    /\ \E f \in Faults, gray \in GrayRows :
          MRICall(MriImage(gray, 0, 0, 0, 0, 0, [kind |-> "unused"], f))

\* mri.analyze_image(image) with a hint that repeats phrases
MRIAnalyzeEcho ==
    /\ pc = "idle"
    /\ gemini
    /\ \E b \in {50, 128}, h \in HintsEcho :
          MRICall(MriImage(<<200>>, b, 30, 10, 0, 80, [kind |-> "ok", hint |-> h], "none"))

\* analyze_image of the three analyzers while the vision assistant answers
\* with a dict whose confidence is not a number: float() raises after the
\* fields read before it were assigned ("malformed")
AnalyzeMalformed ==
    /\ pc = "idle"
    /\ gemini
    /\ \E h \in HintsText, pre \in PretrainedOutcomes(pretrained) :
          \/ CNNCall(XrayImage(128, 80, 100, 0, 400,
                               [aspect |-> 100, edge_ratio |-> 100, bright_ratio |-> 100],
                               [kind |-> "malformed", hint |-> h], pre, "none"))
          \/ CTCall(CtImage(<<0, 200>>, 128, 26, 10, 221,
                            [kind |-> "malformed", hint |-> h], "none"))
          \/ MRICall(MriImage(<<0, 200>>, 128, 30, 10, 0, 80,
                              [kind |-> "malformed", hint |-> h], "none"))

\* ct.analyze_image(image) and mri.analyze_image(image) on a long snapshot
AnalyzeLong ==
    /\ pc = "idle"
    /\ \E gray \in LongRows, vis \in VisionOutcomes(gemini, HintsText) :
          \/ CTCall(CtImage(gray, 128, 26, 10, 0, vis, "none"))
          \/ MRICall(MriImage(gray, 128, 30, 10, 0, 80, vis, "none"))

\* process_document(image, document_type) from its gate on
ProcessDocument ==
    /\ pc = "idle"
    /\ \E b \in {120, 170, 186}, c \in {20, 31, 60}, e \in {18, 19},
          g \in {[aspect |-> 100, lower_upper_ratio |-> 100],
                 [aspect |-> 200, lower_upper_ratio |-> 151]},
          vis \in VisionOutcomes(gemini, GateHints),
          d \in DocumentTypes, t \in BOOLEAN :
          /\ req' = [kind |-> "document", img |-> GateImage(b, c, e, g, vis),
                     document_type |-> d, ocr_has_text |-> t]
          /\ result' = process_document(gemini, GateImage(b, c, e, g, vis), d, t)
    /\ pc' = "routed"
    /\ UNCHANGED <<gemini, pretrained, locals, first>>
    /\ UNCHANGED lazyVars

\* one page of process_pdf_auto
ProcessPdfPage ==
    /\ pc = "idle"
    /\ \E b \in {120, 170, 186}, c \in {20, 31, 60}, e \in {18, 19},
          vis \in VisionOutcomes(gemini, GateHints), l \in BOOLEAN :
          /\ req' = [kind |-> "pdf_page",
                     img |-> GateImage(b, c, e, [aspect |-> 100, lower_upper_ratio |-> 100], vis),
                     is_lab |-> l]
          /\ result' = process_pdf_page(gemini,
                            GateImage(b, c, e, [aspect |-> 100, lower_upper_ratio |-> 100], vis),
                            l)
    /\ pc' = "routed"
    /\ UNCHANGED <<gemini, pretrained, locals, first>>
    /\ UNCHANGED lazyVars

\* the caller has consumed the result; nothing of the call is retained
Return ==
    /\ pc \in {"done", "routed"}
    /\ pc' = "idle"
    /\ req' = NoReq
    /\ result' = NoResult
    /\ UNCHANGED <<gemini, pretrained, locals, first>>
    /\ UNCHANGED lazyVars

----------------------------------------------------------------------------
(* Repeated analyses of the same images by one CNNModel object *)

\* what is remembered of the client-less analyses of an image
Remember(seen, r) ==
    IF seen = NoResult THEN [result |-> r, again |-> FALSE]
    ELSE [seen EXCEPT !.again = TRUE]

\* RepeatCall answering a repeated image from a result kept for another image
RepeatCall_stale(img) ==
    /\ req' = [kind |-> "cnn", img |-> img]
    /\ result' = IF /\ img \in RepeatImages /\ first[img] # NoResult
                    /\ \E i \in RepeatImages \ {img} : first[i] # NoResult
                 THEN first[CHOOSE i \in RepeatImages \ {img} : first[i] # NoResult].result
                 ELSE CNN_analyze_image(gemini, pretrained, img)
    /\ pc' = "done"
    /\ first' = IF ~gemini /\ ~pretrained /\ img \in RepeatImages
                THEN [first EXCEPT ![img] = Remember(first[img], result')]
                ELSE first
    /\ UNCHANGED <<gemini, pretrained, locals>>
    /\ UNCHANGED lazyVars

\* the call cnn.analyze_image(img), observed: the first client-less result
\* for img is remembered, and so is whether img was analysed again
RepeatCall(img) ==
    /\ req' = [kind |-> "cnn", img |-> img]
    /\ result' = CNN_analyze_image(gemini, pretrained, img)
    /\ pc' = "done"
    /\ first' = IF ~gemini /\ ~pretrained /\ img \in RepeatImages
                THEN [first EXCEPT ![img] = Remember(first[img], result')]
                ELSE first
    /\ UNCHANGED <<gemini, pretrained, locals>>
    /\ UNCHANGED lazyVars

\* cnn.analyze_image(image) on one of the remembered images, with whatever
\* the clients of the object answer
RepeatAnalyze ==
    /\ pc = "idle"
    /\ \E img \in RepeatImages,
          vis \in VisionOutcomes(gemini, {h \in HintsCore : h.confidence = 90 /\ ~h.is_dental}),
          pre \in PretrainedOutcomes(pretrained) :
          RepeatCall([img EXCEPT !.vis = vis, !.pre = pre])

NextRepeat == RepeatAnalyze \/ CNNAnalyzeFault \/ Return

SpecRepeat == Init /\ [][NextRepeat]_vars

----------------------------------------------------------------------------
(* CNNModel.analyze_image followed statement by statement: locals holds    *)
(* dental_like, the gem_* locals (hint) and modality, modality_conf,       *)
(* predicted_idx, confidence and vec (st); "" and NoneNum stand for a      *)
(* local not yet assigned                                                  *)

\* hints of the calls followed step by step
StepHints ==
    [modality : {"chest-xray", "non-chest-xray", "document", "other", "mri"},
     confidence : {0, 25, 75, 76, 90},
     is_dental : BOOLEAN,
     body_region : {<<>>},
     preliminary_findings : {<<>>}]

Unassigned ==
    [modality |-> "", modality_conf |-> NoneNum, predicted_idx |-> 0,
     confidence |-> 0, vec |-> <<>>]

\* lines 47-99: the statistics of the image and the heuristic dental_like;
\* the last shape reaches the cap of the dental-like gate confidence
StepBegin ==
    /\ pc = "idle"
    /\ \E o \in OpacityVals,
          g \in GateVals \cup {[aspect |-> 400, edge_ratio |-> 200, bright_ratio |-> 100]},
          vis \in VisionOutcomes(gemini, StepHints),
          pre \in PretrainedOutcomes(pretrained) :
          /\ req' = [kind |-> "cnn", img |-> XrayImage(128, 80, 0, 0, o, g, vis, pre, "none")]
          /\ locals' = [dental_like |-> CNN_dental_like(
                                           XrayImage(128, 80, 0, 0, o, g, vis, pre, "none")),
                        hint |-> NoHint, st |-> Unassigned]
    /\ pc' = "hint"
    /\ UNCHANGED <<gemini, pretrained, result, first>>
    /\ UNCHANGED lazyVars

\* lines 101-118: the vision assistant; line 115 may set dental_like
StepHint ==
    /\ pc = "hint"
    /\ locals' = [locals EXCEPT !.hint = CNN_hint(gemini, req.img),
                                !.dental_like = @ \/ CNN_hint(gemini, req.img).is_dental]
    /\ pc' = "scores"
    /\ UNCHANGED <<gemini, pretrained, req, result, first>>
    /\ UNCHANGED lazyVars

\* lines 120-165: class scores, normalisation and the pretrained blend
StepClassify ==
    /\ pc = "scores"
    /\ locals' = [locals EXCEPT !.st =
                     CNN_predict(@, CNN_pretrained(pretrained, req.img,
                                                   CNN_heuristic_vec(req.img)))]
    /\ pc' = "gate"
    /\ UNCHANGED <<gemini, pretrained, req, result, first>>
    /\ UNCHANGED lazyVars

\* lines 167-176: modality and modality_conf are assigned, chest-xray at
\* 0.85 or the dental-like override
StepGate ==
    /\ pc = "gate"
    /\ locals' = [locals EXCEPT !.st =
                     CNN_dental_override([@ EXCEPT !.modality = "chest-xray",
                                                   !.modality_conf = 8500],
                                         req.img, locals.dental_like)]
    /\ pc' = "blend"
    /\ UNCHANGED <<gemini, pretrained, req, result, first>>
    /\ UNCHANGED lazyVars

\* lines 178-190: the modality of the hint blended in
StepBlend ==
    /\ pc = "blend"
    /\ locals' = [locals EXCEPT !.st = CNN_gemini_blend(@, locals.hint)]
    /\ pc' = "bias"
    /\ UNCHANGED <<gemini, pretrained, req, result, first>>
    /\ UNCHANGED lazyVars

\* lines 192-202: the bias correction
StepBias ==
    /\ pc = "bias"
    /\ locals' = [locals EXCEPT !.st = CNN_bias_step(@, req.img)]
    /\ pc' = "finish"
    /\ UNCHANGED <<gemini, pretrained, req, result, first>>
    /\ UNCHANGED lazyVars

\* lines 204-258: clamp, findings, label and the returned dict
StepFinish ==
    /\ pc = "finish"
    /\ result' = CNN_result(req.img, locals.hint, locals.st)
    /\ pc' = "done"
    /\ UNCHANGED <<gemini, pretrained, req, locals, first>>
    /\ UNCHANGED lazyVars

\* the caller has consumed the result; the locals are gone
StepReturn ==
    /\ pc = "done"
    /\ pc' = "idle"
    /\ req' = NoReq
    /\ result' = NoResult
    /\ locals' = NoLocals
    /\ UNCHANGED <<gemini, pretrained, first>>
    /\ UNCHANGED lazyVars

NextSteps ==
    \/ StepBegin \/ StepHint \/ StepClassify \/ StepGate
    \/ StepBlend \/ StepBias \/ StepFinish \/ StepReturn

SpecSteps == Init /\ [][NextSteps]_vars

----------------------------------------------------------------------------
(* The lazy getters of app.py, called by the request threads of the server *)

\* a request thread enters get_cnn_model, get_mri_model or get_ct_model
GetModelEnter(t, m) ==
    /\ thread[t].pc = "idle"
    /\ thread' = [thread EXCEPT ![t].pc = "test", ![t].model = m]
    /\ UNCHANGED <<handle, created>>
    /\ UNCHANGED <<gemini, pretrained, pc, req, result, locals, first>>

\* `if cnn_model is None:` reads the global
GetModelTest(t) ==
    /\ thread[t].pc = "test"
    /\ thread' = [thread EXCEPT ![t].pc =
                     IF handle[thread[t].model] = NoneHandle THEN "construct" ELSE "return"]
    /\ UNCHANGED <<handle, created>>
    /\ UNCHANGED <<gemini, pretrained, pc, req, result, locals, first>>

\* `cnn_model = CNNModel()` builds a new object and stores it in the global
GetModelConstruct(t) ==
    /\ thread[t].pc = "construct"
    /\ created' = [created EXCEPT ![thread[t].model] = @ + 1]
    /\ handle' = [handle EXCEPT ![thread[t].model] = created[thread[t].model] + 1]
    /\ thread' = [thread EXCEPT ![t].pc = "return"]
    /\ UNCHANGED <<gemini, pretrained, pc, req, result, locals, first>>

\* `return cnn_model` reads the global again and hands it to the caller
GetModelReturn(t) ==
    /\ thread[t].pc = "return"
    /\ thread' = [thread EXCEPT ![t].pc = "idle",
                                ![t].got[thread[t].model] = handle[thread[t].model]]
    /\ UNCHANGED <<handle, created>>
    /\ UNCHANGED <<gemini, pretrained, pc, req, result, locals, first>>

NextLazy ==
    \/ \E t \in Threads, m \in Models : GetModelEnter(t, m)
    \/ \E t \in Threads : GetModelTest(t)
    \/ \E t \in Threads : GetModelConstruct(t)
    \/ \E t \in Threads : GetModelReturn(t)

SpecLazy == Init /\ [][NextLazy]_vars

----------------------------------------------------------------------------

Next ==
    \/ CNNAnalyze \/ CNNAnalyzeText \/ CNNAnalyzeFault \/ CNNAnalyzeEcho
    \/ CNNAnalyzeExtreme \/ AnalyzeMalformed \/ AnalyzeLong
    \/ CTAnalyze \/ CTAnalyzeFault \/ CTAnalyzeEcho
    \/ MRIAnalyze \/ MRIAnalyzeFault \/ MRIAnalyzeEcho
    \/ ProcessDocument \/ ProcessPdfPage
    \/ Return

Spec == Init /\ [][Next]_vars

----------------------------------------------------------------------------
(* Properties *)

\* analyze_image of the given analyzer has returned
Returned(kind) == pc = "done" /\ req.kind = kind

\* ... with a computed result (no internal error)
Computed(kind) == Returned(kind) /\ "error" \notin DOMAIN result

\* the hint the vision assistant delivered in this call, if any
HintDelivered == pc = "done" /\ gemini /\ req.img.vis.kind = "ok"

\* 1e-6 in the unit of the probabilities
Tolerance == Unit \div 1000000

\* C1: in every result CNNModel.analyze_image computes without an internal
\* error the four probabilities sum to 1.0 within 1e-6 and each is > 0
C1_ProbabilitiesSumToOne ==
    Computed("cnn") =>
        /\ Abs(Sum4(result.all_probabilities) - Unit) <= Tolerance
        /\ \A i \in 1..4 : result.all_probabilities[i] > 0

\* a blended, bias-corrected result: neither override vector, pretrained map used
C1_Witness ==
    /\ Computed("cnn")
    /\ pretrained /\ req.img.pre.kind = "ok"
    /\ req.img.opacity < 220
    /\ result.image_stats.modality = "chest-xray"
    /\ result.all_probabilities \notin {DentalVec, GeminiVec}

\* C2: the confidence of every result, fallback results included, lies in
\* [0.55, 0.93] for CNNModel and in [0, 0.95] for CTModel and MRIModel
C2_ConfidenceBounds ==
    /\ Returned("cnn") => result.confidence >= 55 /\ result.confidence <= 93
    /\ Returned("ct") => result.ct_confidence >= 0 /\ result.ct_confidence <= 95
    /\ Returned("mri") => result.mri_confidence >= 0 /\ result.mri_confidence <= 95

\* the clamp acted: the winning probability is above 0.93, the confidence is 0.93
C2_Witness ==
    /\ Computed("cnn")
    /\ result.all_probabilities[result.prediction + 1] > 93000000
    /\ result.confidence = 93

\* C3: analyze_image of the three analyzers never raises; after an internal
\* failure the result records the error message, and the CNNModel fallback is
\* prediction 0, class_name Normal, confidence 0.72
C3_NeverRaises ==
    pc = "done" =>
        /\ "raised" \notin DOMAIN result
        /\ req.img.fault # "none" =>
              /\ "error" \in DOMAIN result
              /\ result.error = req.img.fault
              /\ req.kind = "cnn" =>
                    /\ result.prediction = 0
                    /\ result.class_name = Label(<<>>, "Normal")
                    /\ result.confidence = 72

\* a call that failed inside CNNModel.analyze_image has returned
C3_Witness ==
    /\ Returned("cnn")
    /\ req.img.fault = "internal error"
    /\ result.error = "internal error"

\* C4: the result CNNModel.analyze_image returns for a malformed or empty
\* pixel grid carries a probability map, image statistics and a non-empty
\* findings list, like a computed result
C4_MalformedGridWellFormed ==
    (Returned("cnn") /\ req.img.fault = "malformed pixel grid") =>
        /\ {"all_probabilities", "image_stats", "findings"} \subseteq DOMAIN result
        /\ result.findings # <<>>

\* the result of the same call with self.gemini = None
WithoutVision ==
    LET img == [req.img EXCEPT !.vis = [kind |-> "unused"]]
    IN CASE req.kind = "cnn" -> CNN_analyze_image(FALSE, pretrained, img)
         [] req.kind = "ct" -> CT_analyze_image(FALSE, img)
         [] req.kind = "mri" -> MRI_analyze_image(FALSE, img)

\* C5: if the vision assistant's analyze raises or returns null, the result
\* is the one produced for the same image without a vision assistant
C5_VisionFailureIsNoVision ==
    (pc = "done" /\ gemini /\ req.img.vis.kind \in {"raise", "null"}) =>
        result = WithoutVision

\* the assistant raised during a CNNModel call that went on to compute a result
C5_Witness ==
    /\ Computed("cnn")
    /\ gemini /\ req.img.vis.kind = "raise"
    /\ result.image_stats.body_region = StrChest

\* C6: if the pretrained source raises or returns null/empty, probabilities,
\* predicted class and confidence are those of the heuristics-only computation
C6_PretrainedFailureIsHeuristic ==
    (Computed("cnn") /\ pretrained /\ req.img.pre.kind \in {"raise", "null", "empty"}) =>
        LET alone == CNN_analyze_image(gemini, FALSE,
                                       [req.img EXCEPT !.pre = [kind |-> "unused"]])
        IN /\ result.all_probabilities = alone.all_probabilities
           /\ result.prediction = alone.prediction
           /\ result.confidence = alone.confidence

\* the source returned an empty map and the heuristic vector was reported
C6_Witness ==
    /\ Computed("cnn")
    /\ pretrained /\ req.img.pre.kind = "empty"
    /\ ~gemini /\ ~CNN_dental_like(req.img) /\ req.img.opacity >= 220
    /\ result.all_probabilities = CNN_heuristic_vec(req.img)

\* dental_like holds by the heuristic rule or was set by the vision hint
DentalLikeFired ==
    \/ CNN_dental_like(req.img)
    \/ /\ HintDelivered
       /\ \/ req.img.vis.hint.is_dental
          \/ /\ req.img.vis.hint.modality \in {"non-chest-xray", "document"}
             /\ req.img.vis.hint.confidence > 75

\* the vision hint enforces the non-chest path
NonChestEnforced ==
    /\ HintDelivered
    /\ req.img.vis.hint.modality \in {"non-chest-xray", "document", "other"}
    /\ req.img.vis.hint.confidence > 0

\* C7 as stated: whenever dental_like is true or the hint enforces the
\* non-chest path, prediction is Normal, confidence >= 0.70 and the Normal
\* probability is >= 0.88
C7_OverrideDominantNormal ==
    (Computed("cnn") /\ (DentalLikeFired \/ NonChestEnforced)) =>
        /\ result.prediction = 0
        /\ result.confidence >= 70
        /\ result.all_probabilities[1] >= 88000000

\* C7 as amended: ... and the Normal probability is at least the float32
\* value of 0.88 (>= 0.8799999)
C7_OverrideDominantNormalF32 ==
    (Computed("cnn") /\ (DentalLikeFired \/ NonChestEnforced)) =>
        /\ result.prediction = 0
        /\ result.confidence >= 70
        /\ result.all_probabilities[1] >= 87999990

\* the dental rule fired, the hint made the modality chest again and the bias
\* correction then acted on the override vector
C7_Witness ==
    /\ Computed("cnn")
    /\ CNN_dental_like(req.img)
    /\ result.image_stats.modality = "chest-xray"
    /\ req.img.opacity < 220
    /\ result.all_probabilities # DentalVec

\* the uniform image: brightness 128, no contrast, sharpness, edges or
\* opacity, aspect ratio 1 and band ratios 1
UniformImage ==
    /\ req.img.brightness = 128 /\ req.img.contrast = 0 /\ req.img.sharpness = 0
    /\ req.img.edge_score = 0 /\ req.img.opacity = 0 /\ req.img.aspect = 100
    /\ req.img.edge_ratio = 100 /\ req.img.bright_ratio = 100

\* C8: the uniform image analysed with no external clients is Normal with
\* confidence >= 0.70 and a Normal probability > 0.7
C8_UniformImageNormal ==
    (Computed("cnn") /\ ~gemini /\ ~pretrained /\ UniformImage) =>
        /\ result.prediction = 0
        /\ result.class_name = Label(<<>>, "Normal")
        /\ result.confidence >= 70
        /\ result.all_probabilities[1] > 70000000

\* the uniform image has been analysed with no external clients
C8_Witness ==
    /\ Computed("cnn") /\ ~gemini /\ ~pretrained /\ UniformImage
    /\ result.image_stats.modality = "chest-xray"

\* C9: MRIModel labels a snapshot "<region> mri - lesion suspected" exactly
\* when lesionScore > 0.35 or (lesionScore > 0.25 and edgeScore > 10) or
\* (hiArea > 0.015 and lateralDiff > 0.08), and "<region> mri - no obvious
\* abnormality" otherwise
C9_MriSuspicionRule ==
    Computed("mri") =>
        /\ result.mri_label.region = result.mri_body_region
        /\ result.mri_label.text =
              IF \/ req.img.lesion_score > 350
                 \/ req.img.lesion_score > 250 /\ req.img.edge_score > 10
                 \/ HiAreaAbove015(req.img.gray) /\ req.img.lateral_diff > 80
              THEN " mri - lesion suspected"
              ELSE " mri - no obvious abnormality"

\* suspected by the third clause alone: hiArea > 0.015 and lateralDiff = 0.15
C9_Witness ==
    /\ Computed("mri")
    /\ req.img.lesion_score = 0
    /\ HiAreaAbove015(req.img.gray) /\ req.img.lateral_diff = 150
    /\ result.mri_label.text = " mri - lesion suspected"

\* C10: CTModel labels a snapshot "<region> ct - lesion suspected" exactly
\* when, for a region containing "chest" or "lung", lesionScore > 0.22 and
\* contrast > 25, and for any other region, lesionScore > 0.30 or
\* hiArea > 0.015; otherwise "<region> ct - no obvious abnormality"
C10_CtSuspicionRule ==
    Computed("ct") =>
        /\ result.ct_label.region = result.ct_body_region
        /\ result.ct_label.text =
              IF IF \/ Contains(StrChest, result.ct_body_region)
                    \/ Contains(StrLung, result.ct_body_region)
                 THEN req.img.lesion_score > 220 /\ req.img.contrast > 25
                 ELSE req.img.lesion_score > 300 \/ HiAreaAbove015(req.img.gray)
              THEN " ct - lesion suspected"
              ELSE " ct - no obvious abnormality"

\* a lung region cleared by the chest rule although the image has a
\* high-intensity area
C10_Witness ==
    /\ Computed("ct")
    /\ result.ct_body_region = StrLung
    /\ req.img.lesion_score = 221 /\ req.img.contrast = 25
    /\ HiAreaAbove015(req.img.gray)
    /\ result.ct_label.text = " ct - no obvious abnormality"

\* a request handler has routed its image
Routed(kind) == pc = "routed" /\ req.kind = kind

\* the handler invoked the given collaborator
Called(c) == \E i \in 1..Len(result.calls) : result.calls[i] = c

\* the vision hint of the routed image reports chest-xray with confidence 0.9
HintSaysChest ==
    /\ gemini /\ req.img.vis.kind = "ok"
    /\ req.img.vis.hint.modality = "chest-xray"
    /\ req.img.vis.hint.confidence = 90

----------------------------------------------------------------------------

\* C13: lazy initialization of the model handles is safe to race: under any
\* interleaving of concurrent first calls a cached handle is never replaced
\* and every caller receives the same handle
C13_LazyInitSafeToRace ==
    [][\A m \in Models :
          /\ handle[m] # NoneHandle => handle'[m] = handle[m]
          /\ \A t, u \in Threads :
                thread'[t].got[m] # NoneHandle /\ thread'[u].got[m] # NoneHandle
                    => thread'[t].got[m] = thread'[u].got[m]]_vars

----------------------------------------------------------------------------

\* the hint of this call lists no string as a preliminary finding
NoHintFinding(hint) ==
    \A i \in 1..Len(hint.gem_findings) : ~hint.gem_findings[i].isstr

\* no threshold of _make_findings is crossed
CNN_quiet(img) ==
    /\ img.brightness >= 70 /\ img.brightness <= 180
    /\ img.sharpness >= 15
    /\ img.opacity <= 300
    /\ ~(img.edge_score > 55 /\ img.sharpness > 40)

\* no threshold of the CT findings is crossed
CT_quiet(img, region) ==
    /\ img.brightness >= 60 /\ img.brightness <= 200
    /\ CT_is_chest(region) => img.lesion_score <= 220
    /\ ~CT_is_chest(region) => img.lesion_score <= 300 /\ ~HiAreaAbove015(img.gray)

\* no threshold of the MRI findings is crossed
MRI_quiet(img) ==
    /\ img.brightness >= 60 /\ img.brightness <= 200
    /\ img.lesion_score <= 250
    /\ ~HiAreaAbove015(img.gray)
    /\ img.lateral_diff <= 120

\* C14: every computed result of the three analyzers has a non-empty
\* findings list; without a hint finding and without a crossed threshold the
\* list is the single no-strong-abnormalities phrase of the analyzer
C14_FindingsNeverEmpty ==
    /\ Computed("cnn") =>
          /\ result.findings # <<>>
          /\ NoHintFinding(CNN_hint(gemini, req.img)) /\ CNN_quiet(req.img)
                => result.findings = <<Finding("No strong abnormalities detected", <<>>)>>
    /\ Computed("ct") =>
          /\ result.ct_findings # <<>>
          /\ NoHintFinding(CT_hint(gemini, req.img))
                /\ CT_quiet(req.img, result.ct_body_region)
                => result.ct_findings =
                     <<Finding("No strong abnormalities detected on snapshot", <<>>)>>
    /\ Computed("mri") =>
          /\ result.mri_findings # <<>>
          /\ NoHintFinding(MRI_hint(gemini, req.img)) /\ MRI_quiet(req.img)
                => result.mri_findings =
                     <<Finding("No strong abnormalities detected on snapshot", <<>>)>>

\* a CNN result that is the lone default phrase although the hint listed a
\* non-string finding
C14_Witness ==
    /\ Computed("cnn") /\ HintDelivered
    /\ req.img.vis.hint.preliminary_findings # <<>>
    /\ CNN_quiet(req.img)
    /\ result.findings = <<Finding("No strong abnormalities detected", <<>>)>>

----------------------------------------------------------------------------

\* the strings among the preliminary findings of a hint, each once, in order
HintStrings(hint) == MergeFindings(<<>>, hint.gem_findings, TRUE)

\* fs begins with the strings of the hint and holds no phrase twice
HintFirstOnce(fs, hint) ==
    /\ Len(HintStrings(hint)) <= Len(fs)
    /\ SubSeq(fs, 1, Len(HintStrings(hint))) = HintStrings(hint)
    /\ \A i, j \in 1..Len(fs) : i # j => fs[i] # fs[j]

\* C15: in the findings of the three analyzers the preliminary findings of
\* the hint come first in their given order, the heuristic findings follow,
\* and no phrase occurs more than once
C15_HintFindingsFirstOnce ==
    /\ Computed("cnn") => HintFirstOnce(result.findings, CNN_hint(gemini, req.img))
    /\ Computed("ct") => HintFirstOnce(result.ct_findings, CT_hint(gemini, req.img))
    /\ Computed("mri") => HintFirstOnce(result.mri_findings, MRI_hint(gemini, req.img))

----------------------------------------------------------------------------

\* a call followed step by step has returned
StepDone == pc = "done" /\ locals # NoLocals

\* the statements of analyze_image taken one by one compute what the call
\* computes as a whole
StepsAgree == StepDone => result = CNN_analyze_image(gemini, pretrained, req.img)

----------------------------------------------------------------------------

\* the hint delivered in this call names a non-chest modality
NonChestHint ==
    /\ HintDelivered
    /\ req.img.vis.hint.modality \in {"non-chest-xray", "document", "other"}

\* C16: a hint reporting non-chest-xray, document or other with confidence
\* c > 0.75 puts CNNModel.analyze_image on the non-chest path whatever the
\* heuristics say (reported modality not starting with 'chest', prediction
\* Normal), with a gate confidence of at least min(0.98, 0.75 + 0.2 * c)
C16_StrongNonChestHintEnforced ==
    StepDone /\ NonChestHint /\ req.img.vis.hint.confidence > 75 =>
        /\ ~StartsWithChest(result.image_stats.modality)
        /\ result.prediction = 0
        /\ locals.st.modality_conf >= Min2(9800, 7500 + 20 * req.img.vis.hint.confidence)
        /\ result.image_stats.modality_confidence = Round2e4(locals.st.modality_conf)

\* a hint 'other' at 0.76 on an image the heuristics take for a chest
\* X-ray with strong opacities: the gate confidence is 0.902
C16_Witness ==
    /\ StepDone /\ NonChestHint
    /\ req.img.vis.hint.modality = "other" /\ req.img.vis.hint.confidence = 76
    /\ ~CNN_dental_like(req.img) /\ ~req.img.vis.hint.is_dental
    /\ req.img.opacity = 400
    /\ locals.st.modality_conf = 9020
    /\ result.image_stats.modality = "non-chest-xray (gemini)"

----------------------------------------------------------------------------

\* modality, probabilities and predicted class of two results agree
SameDecision(r, s) ==
    /\ r.image_stats.modality = s.image_stats.modality
    /\ r.all_probabilities = s.all_probabilities
    /\ r.prediction = s.prediction

\* C17: a hint reporting non-chest-xray, document or other with confidence
\* <= 0.75 and is_dental false does not force the non-chest path: modality,
\* probabilities and predicted class are those of the analysis without it
C17_WeakNonChestHintIgnored ==
    Computed("cnn") /\ NonChestHint
        /\ req.img.vis.hint.confidence <= 75 /\ ~req.img.vis.hint.is_dental
    => SameDecision(result, CNN_analyze_image(FALSE, pretrained, req.img))

----------------------------------------------------------------------------

\* the modality the gate stands for when classification begins: dental_like
\* (lines 94-99, refined at line 115) is all that is decided by then
GateModality(l) ==
    IF l.dental_like THEN "non-chest-xray (dental/panoramic likely)" ELSE "chest-xray"

\* C18: the modality is decided before the class probabilities are computed
\* and never changed afterwards: once assigned, the local modality keeps its
\* value through the override, the blend and the correction, and the result
\* reports the modality fixed before classification
C18_ModalityNeverRevised ==
    [][/\ locals # NoLocals /\ locals' # NoLocals /\ locals.st.modality # ""
            => locals'.st.modality = locals.st.modality
       /\ pc' = "done" /\ locals' # NoLocals
            => result'.image_stats.modality = GateModality(locals')]_vars

----------------------------------------------------------------------------

\* lines 169 and 173: the gate confidence before any hint is blended in
BaselineConf(img, dental_like) ==
    IF dental_like
    THEN Min2(9700, 7000 + 10 * (img.aspect - 160) + 20 * (img.edge_ratio - 135))
    ELSE 8500

\* C19: the gate confidence starts at its baseline (0.85 for chest, the
\* aspect/edge-ratio formula capped at 0.97 for dental-like) and no later
\* step of the call lowers it, for any hint modality and hint confidence
C19_GateConfidenceOnlyRaised ==
    [][/\ pc = "gate" /\ pc' = "blend"
            => locals'.st.modality_conf = BaselineConf(req.img, locals.dental_like)
       /\ locals # NoLocals /\ locals' # NoLocals /\ locals.st.modality_conf # NoneNum
            => locals'.st.modality_conf >= locals.st.modality_conf]_vars

\* a chest hint has raised the gate confidence of a chest image above 0.85
C19_Witness ==
    /\ pc = "bias" /\ ~locals.dental_like
    /\ locals.hint.gem_modality = "chest-xray"
    /\ locals.st.modality_conf > BaselineConf(req.img, locals.dental_like)

----------------------------------------------------------------------------

\* the probability vector of this call before override, blend and correction
ClassifiedVec ==
    CNN_pretrained(pretrained, req.img, CNN_heuristic_vec(req.img))

\* C20: on the chest path with an opacity score below 0.22 the bias
\* correction keeps the final predicted class off Pneumonia, whatever the
\* heuristic vector and the pretrained probabilities are
C20_LowOpacityNeverPneumonia ==
    Computed("cnn") /\ result.image_stats.modality = "chest-xray"
        /\ req.img.opacity < 220
    => result.prediction # 1 /\ ArgMax(result.all_probabilities) # 2

\* heuristics at their most favourable for Pneumonia and a pretrained
\* network certain of it: Pneumonia led before the correction, Normal after
C20_Witness ==
    /\ Computed("cnn") /\ result.image_stats.modality = "chest-xray"
    /\ req.img.opacity = 219
    /\ pretrained /\ req.img.pre.kind = "ok" /\ req.img.pre.out.pneumonia = 1000000
    /\ ArgMax(ClassifiedVec) = 2
    /\ ClassifiedVec[2] > 83000000
    /\ result.prediction = 0

----------------------------------------------------------------------------

----------------------------------------------------------------------------

\* how often self.gemini.analyze was invoked during this call
VisionCalls ==
    CASE req.kind = "cnn" -> CNN_hint(gemini, req.img).calls
      [] req.kind = "ct" -> CT_hint(gemini, req.img).calls
      [] req.kind = "mri" -> MRI_hint(gemini, req.img).calls

----------------------------------------------------------------------------

\* the three assessments of a non-chest label, as they follow the region
Assessments ==
    {" x-ray - possible soft-tissue swelling", " x-ray - possible fracture",
     " x-ray - no obvious abnormality"}

\* a region as the label prints it: stripped, lower case, '_' as '-'
PrintedRegion(region) == ReplaceUnderscore(Lower(Strip(region)))

\* class_name follows the modality, the non-chest label naming region
LabelledAs(region) ==
    IF StartsWithChest(result.image_stats.modality)
    THEN result.class_name = Label(<<>>, class_names[result.prediction + 1])
    ELSE /\ result.class_name.text \in Assessments
         /\ result.class_name.region = PrintedRegion(region)
         /\ \A i \in 1..4 : result.class_name # Label(<<>>, class_names[i])

\* C23: off the chest path class_name is '<region> x-ray - <assessment>',
\* never a class name, with the body region of the hint, else 'non-chest';
\* on the chest path it is the class name at the predicted index
C23_RegionAwareLabel ==
    Computed("cnn") =>
        LabelledAs(IF HintDelivered /\ req.img.vis.hint.body_region # <<>>
                   THEN req.img.vis.hint.body_region ELSE StrNonChest)

\* C23 as the code has it: a delivered hint without a body region gives the
\* region 'unknown'; 'non-chest' stands only where no hint was delivered
C23_RegionAwareLabelUnknown ==
    Computed("cnn") =>
        LabelledAs(IF HintDelivered
                   THEN OrStr(req.img.vis.hint.body_region, StrUnknown)
                   ELSE StrNonChest)

\* a hint 'other' without a body region: the label reads 'unknown x-ray - ...'
C23_Witness ==
    /\ Computed("cnn") /\ HintDelivered
    /\ req.img.vis.hint.body_region = <<>>
    /\ req.img.vis.hint.modality = "other"
    /\ result.class_name = Label(StrUnknown, " x-ray - no obvious abnormality")

----------------------------------------------------------------------------

\* phrase occurs in fs only as its single entry
OnlyAlone(phrase, fs) ==
    (\E i \in 1..Len(fs) : fs[i] = Finding(phrase, <<>>)) => Len(fs) = 1

\* C24: in the findings of the three analyzers the no-strong-abnormalities
\* phrase appears only when nothing else is reported, also when the hint
\* supplied preliminary findings
C24_DefaultPhraseOnlyAlone ==
    /\ Computed("cnn") => OnlyAlone("No strong abnormalities detected", result.findings)
    /\ Computed("ct") =>
          OnlyAlone("No strong abnormalities detected on snapshot", result.ct_findings)
    /\ Computed("mri") =>
          OnlyAlone("No strong abnormalities detected on snapshot", result.mri_findings)

----------------------------------------------------------------------------

\* looksLikeXray of a request: by the heuristics, by the dental pattern or
\* by a chest-xray / non-chest-xray hint above 0.75
LooksLikeXray ==
    \/ req.img.brightness < 170 /\ req.img.contrast > 30 /\ req.img.edges > 18
    \/ req.img.aspect > 160 /\ req.img.lower_upper_ratio > 150
    \/ /\ gemini /\ req.img.vis.kind = "ok"
       /\ req.img.vis.hint.modality \in {"chest-xray", "non-chest-xray"}
       /\ req.img.vis.hint.confidence > 75

\* C25: process_document with a non-imaging document_type and looks_like_xray
\* true ends with status 'mismatch' and recommended_type 'xray', and invokes
\* neither OCR nor NLP
C25_MismatchSkipsText ==
    Routed("document") /\ req.document_type \notin {"xray", "mri", "ct_scan"}
        /\ LooksLikeXray
    => /\ result.status = "mismatch"
       /\ result.recommended_type = "xray"
       /\ ~Called("ocr") /\ ~Called("nlp") /\ ~Called("parse_lab")

\* a bright, flat page declared a prescription, taken for a scan by its
\* dental pattern alone
C25_Witness ==
    /\ Routed("document") /\ req.document_type = "prescription"
    /\ req.img.brightness > 185 /\ req.img.contrast < 55
    /\ req.img.aspect > 160 /\ req.img.lower_upper_ratio > 150
    /\ ~(gemini /\ req.img.vis.kind = "ok")
    /\ result.status = "mismatch" /\ result.ocr_skipped

----------------------------------------------------------------------------

\* C26: process_pdf_auto routes a page whose hint reports 'mri' to the MRI
\* analyzer (detected_type 'mri') and a page whose hint reports 'ct' to the
\* CT analyzer (detected_type 'ct_scan'), whatever the heuristics of the
\* page are
C26_HintRoutesVolumePages ==
    Routed("pdf_page") /\ gemini /\ req.img.vis.kind = "ok" =>
        /\ req.img.vis.hint.modality = "mri" =>
              result.detected_type = "mri" /\ result.calls = <<"mri">>
        /\ req.img.vis.hint.modality = "ct" =>
              result.detected_type = "ct_scan" /\ result.calls = <<"ct">>

----------------------------------------------------------------------------
\* the call was analysed without a vision hint
NoVisionHint == req.img.vis.kind \in {"unused", "raise", "null"}

\* C27: the fraction of pixels at or above the 0.97-quantile exceeds 0.015
\* for every non-empty snapshot (CT and MRI alike); hence for every snapshot
\* whose region is neither chest nor lung, and so for every snapshot analysed
\* without a vision hint, CTModel returns the label 'lesion suspected'
C27_HiAreaAlwaysAboveThreshold ==
    /\ Computed("ct") \/ Computed("mri") => HiAreaAbove015(req.img.gray)
    /\ Computed("ct") => result.ct_stats.hi_area > 150
    /\ Computed("ct") /\ ~CT_is_chest(result.ct_body_region)
           => result.ct_label = Label(result.ct_body_region, " ct - lesion suspected")
    /\ Computed("ct") /\ NoVisionHint
           => result.ct_label = Label(StrCt, " ct - lesion suspected")

\* a long snapshot with no hint and no lesion score whose high-intensity
\* mask is under 4.5 percent of the pixels, labelled 'lesion suspected'
C27_Witness ==
    /\ Computed("ct")
    /\ NoVisionHint
    /\ Len(req.img.gray) >= LongPixels
    /\ req.img.lesion_score = 0
    /\ 1000 * Cardinality(HiMask(req.img.gray)) < 45 * Len(req.img.gray)
    /\ result.ct_label = Label(StrCt, " ct - lesion suspected")

----------------------------------------------------------------------------
\* i (0-based) is an index of a largest entry of the vector v
IsArgMax(i, v) == \A j \in 1..4 : v[j] <= v[i + 1]

\* C28: in every computed CNN result the prediction index is an arg-max of
\* all_probabilities, on every path: heuristics only, pretrained blend,
\* dental override, hint override and bias correction
C28_PredictionIsArgMax ==
    Computed("cnn") => IsArgMax(result.prediction, result.all_probabilities)

\* the pretrained blend made another class than Normal the largest, the bias
\* correction then acted, and the prediction is Normal
C28_Witness ==
    /\ Computed("cnn")
    /\ pretrained
    /\ result.image_stats.modality = "chest-xray"
    /\ req.img.opacity < 220
    /\ ArgMax(CNN_pretrained(pretrained, req.img, CNN_heuristic_vec(req.img))) # 1
    /\ result.prediction = 0
    /\ IsArgMax(0, result.all_probabilities)

----------------------------------------------------------------------------
\* the analysis ended on a modality that does not start with 'chest'
NonChestResult == Computed("cnn") /\ ~StartsWithChest(result.image_stats.modality)

\* C29 as stated: whenever the final modality does not start with 'chest',
\* the probability vector is [0.88, 0.04, 0.04, 0.04] or
\* [0.90, 0.04, 0.03, 0.03] and the prediction is 0; so the Fracture
\* probability is never above 0.25 there and the assessment 'possible
\* fracture' can only come from edgeScore > 55 and sharpness > 40
C29_NonChestVectorFixed ==
    NonChestResult =>
        /\ result.all_probabilities \in
               {<<88 * (Unit \div 100), 4 * (Unit \div 100),
                  4 * (Unit \div 100), 4 * (Unit \div 100)>>,
                <<90 * (Unit \div 100), 4 * (Unit \div 100),
                  3 * (Unit \div 100), 3 * (Unit \div 100)>>}
        /\ result.prediction = 0
        /\ result.all_probabilities[4] <= 25000000
        /\ result.class_name.text = " x-ray - possible fracture"
               => req.img.edge_score > 55 /\ req.img.sharpness > 40

\* C29 as amended: ... the probability vector is one of the two override
\* vectors as float32 stores them (0.88 as 0.8799999952..., 0.90 as
\* 0.8999999762..., 0.04 as 0.0399999991..., 0.03 as 0.0299999993...) ...
C29_NonChestVectorFixedF32 ==
    NonChestResult =>
        /\ result.all_probabilities \in {DentalVec, GeminiVec}
        /\ result.prediction = 0
        /\ result.all_probabilities[4] <= 25000000
        /\ result.class_name.text = " x-ray - possible fracture"
               => req.img.edge_score > 55 /\ req.img.sharpness > 40

\* a non-chest result assessed 'possible fracture' whose vector before the
\* override gave Fracture more than 0.25
C29_Witness ==
    /\ NonChestResult
    /\ result.class_name.text = " x-ray - possible fracture"
    /\ CNN_pretrained(pretrained, req.img, CNN_heuristic_vec(req.img))[4] > 25000000
    /\ result.all_probabilities[4] <= F32_004

----------------------------------------------------------------------------
\* the heuristic lesion/opacity phrases of CTModel
CtLesionPhrases ==
    {Finding("Patchy parenchymal density (possible pulmonary opacity)", <<>>),
     Finding("Focal high-variance/high-intensity region (possible lesion)", <<>>)}

\* the findings of the result hold one of the lesion/opacity phrases
CtLesionFinding ==
    \E i \in 1..Len(result.ct_findings) : result.ct_findings[i] \in CtLesionPhrases

\* C30: in a CTModel result the label is 'lesion suspected' if and only if
\* the findings contain a heuristic lesion/opacity phrase; a 'no obvious
\* abnormality' label never comes with such a finding
C30_LabelAgreesWithFindings ==
    Computed("ct") =>
        /\ result.ct_label.text = " ct - lesion suspected" <=> CtLesionFinding
        /\ result.ct_label.text = " ct - no obvious abnormality" => ~CtLesionFinding

====
